---------------------------- MODULE Spec2Model ----------------------------
(***************************************************************************)
(* A model of c4-utils' storage discovery and partition planning:          *)
(*   - c4.utils.devices.getAvailableDisks (lsblk row loop)                 *)
(*   - c4.utils.devices.Disk partition bookkeeping and hasSpaceLeft        *)
(*   - c4.utils.devices.partitionDevices (command sequencer)               *)
(*   - c4.utils.scsi.adaptec / c4.utils.scsi.lsi controller parsers        *)
(*   - c4.utils.devices.addAdaptecControllerInformation                    *)
(*   - c4.utils.devices.addLSIControllerInformation, BlockDeviceMapping    *)
(*   - c4.utils.decorators.retry                                           *)
(*   - c4.utils.util.exclusiveWrite                                        *)
(*   - c4.utils.devices.getAvailableDevices (node loop)                    *)
(*   - c4.utils.devices.getDiskPartitions (retry recursion)                *)
(*   - c4.utils.util.Timer                                                 *)
(* Python str values that the code inspects by prefix or digit are         *)
(* sequences of one-character strings; other str values are TLA+ strings.  *)
(***************************************************************************)
EXTENDS Integers, Sequences, FiniteSets, TLC

VARIABLES
    \* getAvailableDisks
    lsblkOutput,        \* the rows of the lsblk dump consumed so far
    ignoreOSDisks,      \* parameter
    includePartitions,  \* parameter
    disks,              \* local `disks`: name -> Disk
    currentDevice,      \* local `currentDevice` (None or a name)
    gadPc,              \* "loop" | "returned" | "raised" ("idle": not running)
    gadExc,             \* the exception that left the function, or None
    \* Disk
    partitions,         \* Disk.partitions: index -> Partition
    spaceLeft,          \* what the last hasSpaceLeft() returned (None: not called)
    \* partitionDevices
    devices,            \* DeviceMap.nodes: node -> disk -> Disk.partitions
    pdPc,               \* the command to issue next, "returned" or "raised"
    pdNodes,            \* sorted nodes still to process (head: the current one)
    pdDisks,            \* sorted disks of the node still to process
    pdMounts,           \* lines of `mountPoints` still to process
    pdParts,            \* sorted partition indexes still to create
    start,              \* local `start`
    commands,           \* every command handed to c4.utils.command.execute
    \* AdaptecDevicesInfo.fromString / LSIDevicesInfo.fromString
    vendor,             \* "adaptec" | "lsi": the class fromString is called on
    logicalDevicesString,   \* argument: the lines (adaptec) or the JSON value (lsi)
    physicalDevicesString,  \* argument
    physicalDevices,    \* controllerInfo.physicalDevices
    logicalDevices,     \* controllerInfo.logicalDevices
    controllers,        \* info.controllers
    scsiPc,             \* "start" | "physical" | "logical" | "resolve" | "returned" | "raised"
    scsiExc,            \* the exception that left fromString, or None
    isSSDResult,        \* logical device number -> what its isSSD returned
    \* addAdaptecControllerInformation
    rcDisks,            \* argument `disks`: name -> Disk, changed in place
    rcOrder,            \* the order disks.items() yields the names in
    devicesInfo,        \* argument `devicesInfo`
    rcCalls,            \* how often the function has been applied
    rcExc,              \* the exception that left the last call, or None
    rcFunction,         \* "adaptec" | "lsi": the function the caller applies
    blockDeviceMapping, \* argument `blockDeviceMapping` of addLSIControllerInformation
    \* BlockDeviceMapping.fromString
    bdmString,          \* argument `string`, as the tokens string.split() yields
    bdmDevices,         \* mapping.devices
    bdmPc,              \* "start" | "returned" | "raised"
    bdmExc,             \* the exception that left fromString, or None
    \* retry
    attempts,           \* parameter of retry
    exceptions,         \* parameter of retry (the empty set: not given)
    attempt,            \* loop variable of the wrapper
    latestException,    \* local `latestException`
    methodCalls,        \* what each call of the wrapped method did, in order
    slept,              \* the time slept so far, in units of `interval`
    retryPc,            \* "loop" | "returned" | "raised"
    retryExc,           \* the exception that left the wrapper
    \* exclusiveWrite, called by several processes on one file
    append,             \* parameter `append` of the calls
    ewTries,            \* parameter `tries` of the calls
    strings,            \* process -> parameter `string`, as its pieces
    file,               \* the contents of the file, as the pieces written
    written,            \* every piece handed to write(2), in order
    lockOwner,          \* the process holding the lock on the file (0: none)
    tries,              \* process -> local `tries`
    buffer,             \* process -> what f holds and has not handed to the OS
    ewPc,               \* process -> "start" | "loop" | "locked" | "close" | "returned" | "raised"
    \* getAvailableDevices
    gavNodes,           \* parameter `nodes`
    gavIgnoreOSDisks,   \* parameter `ignoreOSDisks`
    gavIncludePartitions, \* parameter `includePartitions`
    lsblkOf,            \* node -> what the lsblk command answers there (exc: it fails)
    controllerOf,       \* node -> how the controller tools answer there
    gavIndex,           \* the nodes the loop is through with
    deviceMap,          \* devices.nodes: node -> Node.disks
    gavLogged,          \* node -> the exception `except Exception` logged (None: none)
    gavPc,              \* "loop" | "returned" | "raised"
    gavExc,             \* the exception that left the function
    \* getDiskPartitions (the recursion, frame by frame)
    gdpDevice,          \* parameter `device`: "block" | "volgroup" | "other"
    gdpNewSystem,       \* parameter `newSystem`
    callerMaxi,         \* parameter `maxi` of the caller's call
    callerCheckType,    \* parameter `checkType` of the caller's call
    gdpI,               \* `i` of the current frame
    gdpMaxi,            \* `maxi` of the current frame
    gdpCheckType,       \* `checkType` of the current frame
    reads,              \* how often parted printed the partition table
    created,            \* how often createPartitionTable was called
    gdpResult,          \* what the call returned (None, or the partitions)
    gdpPc,              \* "call" | "returned" | "raised"
    gdpExc,             \* the exception that left the call
    \* Timer.run
    initial,            \* Timer.initial
    interval,           \* Timer.interval
    repeatGiven,        \* the `repeat` the Timer was created with
    repeat,             \* Timer.repeat, counted down by run
    timerEvents,        \* what run did so far: its sleeps and its calls of the function
    timerPc,            \* "start" | "forever" | "while" | "sleep" | "exited"
    timerLog            \* the exception run caught and logged (None: none)

gadVars == <<lsblkOutput, ignoreOSDisks, includePartitions, disks, currentDevice, gadPc, gadExc>>

diskVars == <<partitions, spaceLeft>>

pdVars == <<devices, pdPc, pdNodes, pdDisks, pdMounts, pdParts, start, commands>>

scsiVars == <<vendor, logicalDevicesString, physicalDevicesString, physicalDevices,
              logicalDevices, controllers, scsiPc, scsiExc, isSSDResult>>

rcVars == <<rcDisks, rcOrder, devicesInfo, rcCalls, rcExc, rcFunction, blockDeviceMapping>>
bdmVars == <<bdmString, bdmDevices, bdmPc, bdmExc>>
retryVars == <<attempts, exceptions, attempt, latestException, methodCalls, slept, retryPc, retryExc>>
ewVars == <<append, ewTries, strings, file, written, lockOwner, tries, buffer, ewPc>>
gavVars == <<gavNodes, gavIgnoreOSDisks, gavIncludePartitions, lsblkOf, controllerOf, gavIndex, deviceMap, gavLogged, gavPc, gavExc>>
gdpVars == <<gdpDevice, gdpNewSystem, callerMaxi, callerCheckType, gdpI, gdpMaxi, gdpCheckType, reads, created, gdpResult, gdpPc, gdpExc>>
timerVars == <<initial, interval, repeatGiven, repeat, timerEvents, timerPc, timerLog>>

vars == <<gadVars, diskVars, pdVars, scsiVars, rcVars, bdmVars, retryVars, ewVars, gavVars, gdpVars, timerVars>>

\* what each component leaves alone
gadOthers == <<diskVars, pdVars, scsiVars, rcVars, bdmVars, retryVars, ewVars, gavVars, gdpVars, timerVars>>
diskOthers == <<gadVars, pdVars, scsiVars, rcVars, bdmVars, retryVars, ewVars, gavVars, gdpVars, timerVars>>
pdOthers == <<gadVars, diskVars, scsiVars, rcVars, bdmVars, retryVars, ewVars, gavVars, gdpVars, timerVars>>
scsiOthers == <<gadVars, diskVars, pdVars, rcVars, bdmVars, retryVars, ewVars, gavVars, gdpVars, timerVars>>
rcOthers == <<gadVars, diskVars, pdVars, scsiVars, bdmVars, retryVars, ewVars, gavVars, gdpVars, timerVars>>
bdmOthers == <<gadVars, diskVars, pdVars, scsiVars, rcVars, retryVars, ewVars, gavVars, gdpVars, timerVars>>
retryOthers == <<gadVars, diskVars, pdVars, scsiVars, rcVars, bdmVars, ewVars, gavVars, gdpVars, timerVars>>
ewOthers == <<gadVars, diskVars, pdVars, scsiVars, rcVars, bdmVars, retryVars, gavVars, gdpVars, timerVars>>
gavOthers == <<gadVars, diskVars, pdVars, scsiVars, rcVars, bdmVars, retryVars, ewVars, gdpVars, timerVars>>
gdpOthers == <<gadVars, diskVars, pdVars, scsiVars, rcVars, bdmVars, retryVars, ewVars, gavVars, timerVars>>
timerOthers == <<gadVars, diskVars, pdVars, scsiVars, rcVars, bdmVars, retryVars, ewVars, gavVars, gdpVars>>

\* ------------------------------------------------------------------------
\* bounds of the model
MaxRows == 4
MaxPartitions == 3
MaxNodes == 2
MaxMounts == 1
MaxLogicalDevices == 2
MaxCalls == 2
MaxTokens == 4
MaxAttempts == 3
NumProcesses == 2
MaxMaxi == 4
MaxRepeat == 3
MaxTimerCalls == 6

\* ------------------------------------------------------------------------
\* Python values
None == "None"
PyBool(b) == IF b THEN "True" ELSE "False"
EmptyDict == [k \in {} |-> None]
EmptyStr == << >>

\* str.startswith
StartsWith(s, prefix) ==
    /\ Len(s) >= Len(prefix)
    /\ SubSeq(s, 1, Len(prefix)) = prefix

DigitChars == {"0", "1", "2", "3", "4", "5", "6", "7", "8", "9"}
LowerChars == {"a", "b", "c", "d", "s", "v", "x", "y"}

DigitVal(c) ==
    CASE c = "0" -> 0 [] c = "1" -> 1 [] c = "2" -> 2 [] c = "3" -> 3 [] c = "4" -> 4
      [] c = "5" -> 5 [] c = "6" -> 6 [] c = "7" -> 7 [] c = "8" -> 8 [] c = "9" -> 9

\* int(s) is defined on non-empty digit strings (ValueError otherwise)
IsNumeral(s) == Len(s) > 0 /\ \A i \in 1..Len(s) : s[i] \in DigitChars

RECURSIVE StripZeros(_)
StripZeros(s) ==
    IF Len(s) > 1 /\ s[1] = "0" THEN StripZeros(Tail(s)) ELSE s

\* lexicographic order of two digit strings
RECURSIVE LexGreater(_, _)
LexGreater(a, b) ==
    IF a = << >> THEN FALSE
    ELSE IF b = << >> THEN TRUE
    ELSE IF a[1] /= b[1] THEN DigitVal(a[1]) > DigitVal(b[1])
    ELSE LexGreater(Tail(a), Tail(b))

\* int(a) > int(b) for numerals of any magnitude (Python ints are unbounded)
IntGreater(a, b) ==
    LET x == StripZeros(a)
        y == StripZeros(b)
    IN  IF Len(x) /= Len(y) THEN Len(x) > Len(y) ELSE LexGreater(x, y)

\* names, sizes and models of the dumps
sdx == <<"s", "d", "x">>
sdy == <<"s", "d", "y">>
vda == <<"v", "d", "a">>
xvdb == <<"x", "v", "d", "b">>
xvd == <<"x", "v", "d">>
vd == <<"v", "d">>
SEAGATE == <<"S", "E", "A", "G", "A", "T", "E">>
INTEL == <<"I", "N", "T", "E", "L">>
virtual == <<"v", "i", "r", "t", "u", "a", "l">>

S5MB == <<"5", "0", "0", "0", "0", "0", "0">>
S10MB == <<"1", "0", "0", "0", "0", "0", "0", "0">>
S500MB == <<"5", "0", "0", "0", "0", "0", "0", "0", "0">>
S20GB == <<"2", "0", "0", "0", "0", "0", "0", "0", "0", "0", "0">>

\* DiskTypes
HDD == "hdd"
SSD == "ssd"

\* ------------------------------------------------------------------------
\* Disk.__init__ ; getAvailableDisks passes (name, diskType, model, size)
\* positionally, so its fourth argument lands in `location`
DiskNew(name, diskType, model, location, size) ==
    [name |-> name, partitions |-> EmptyDict, type |-> diskType, model |-> model,
     location |-> location, sn |-> None,
     size |-> IF size /= None THEN size ELSE <<"0">>]

\* ------------------------------------------------------------------------
\* Partition and the partition bookkeeping of Disk

Partition(filesystem, percent) ==
    [percent |-> percent, filesystem |-> filesystem, partitionNum |-> 0]

Percents == {0, 30, 40, 100}

RECURSIVE TotalUsed(_, _)
\* the loop of hasSpaceLeft over partitions.items(), from a running total
TotalUsed(parts, totalUsed) ==
    IF DOMAIN parts = {} THEN totalUsed
    ELSE LET index == CHOOSE i \in DOMAIN parts : TRUE
         IN  TotalUsed([i \in DOMAIN parts \ {index} |-> parts[i]],
                       totalUsed + parts[index].percent)

\* (mutant) a disk filled to exactly 100% still reported as having space
HasSpaceLeftOffByOne(parts) ==
    IF DOMAIN parts = {} THEN TRUE ELSE TotalUsed(parts, 0) <= 100

\* Disk.hasSpaceLeft
HasSpaceLeft(parts) ==
    IF DOMAIN parts = {} THEN TRUE ELSE TotalUsed(parts, 0) < 100

DiskInit ==
    /\ partitions = EmptyDict
    /\ spaceLeft = None

DiskIdle ==
    /\ partitions = EmptyDict
    /\ spaceLeft = None

\* Disk.addPartition
addPartition ==
    /\ Cardinality(DOMAIN partitions) < MaxPartitions
    /\ \E percent \in Percents :
         LET index == Cardinality(DOMAIN partitions) + 1
         IN  partitions' = [i \in DOMAIN partitions \cup {index} |->
                              IF i = index THEN Partition("gpfs", percent)
                                           ELSE partitions[i]]
    /\ spaceLeft' = None
    /\ UNCHANGED diskOthers

\* Disk.setPartition
setPartition ==
    /\ \E index \in 1..MaxPartitions, percent \in Percents :
         partitions' = [i \in DOMAIN partitions \cup {index} |->
                          IF i = index THEN Partition("gpfs", percent)
                                       ELSE partitions[i]]
    /\ spaceLeft' = None
    /\ UNCHANGED diskOthers

\* Disk.hasSpaceLeft
hasSpaceLeft ==
    /\ spaceLeft' = PyBool(HasSpaceLeft(partitions))
    /\ UNCHANGED partitions
    /\ UNCHANGED diskOthers

\* ------------------------------------------------------------------------
\* partitionDevices.  Node and disk names are numbered in their sorted order.

RECURSIVE Sorted(_)
\* sorted(keys)
Sorted(S) ==
    IF S = {} THEN << >>
    ELSE LET x == CHOOSE y \in S : \A z \in S : y <= z
         IN  <<x>> \o Sorted(S \ {x})

PlanPercents == {30, 40}

\* the partition plans of a disk: any indexes (setPartition leaves gaps)
PartitionPlans ==
    UNION {[idx -> PlanPercents] : idx \in SUBSET (1..MaxPartitions)}

WholeDisk == [i \in {1} |-> 100]

\* the device maps handed to partitionDevices
DeviceMaps ==
    {[n \in 1..k |-> IF n = 1 THEN first ELSE [d \in {1} |-> WholeDisk]] :
        k \in 1..MaxNodes,
        first \in {[d \in {1} |-> plan] : plan \in PartitionPlans}
                 \cup {[d \in {1, 2} |-> IF d = 1 THEN plan ELSE WholeDisk] :
                          plan \in PartitionPlans}}

Command(node, disk, cmd, index, from, to, ok) ==
    [node |-> node, disk |-> disk, cmd |-> cmd, index |-> index,
     start |-> from, end |-> to, ok |-> ok]

\* where the two outer loops stand after the current disk is finished
AfterDisk(nodes, dsks) ==
    IF Len(dsks) > 1
    THEN [pc |-> "lsblk", nodes |-> nodes, disks |-> Tail(dsks)]
    ELSE IF Len(nodes) > 1
    THEN [pc |-> "lsblk", nodes |-> Tail(nodes), disks |-> Sorted(DOMAIN devices[nodes[2]])]
    ELSE [pc |-> "returned", nodes |-> << >>, disks |-> << >>]

\* end = start + partition.percent
PartitionEnd(from, percent) == from + percent

\* (mutant) `start = end` forgotten: every partition starts where the first did
NextStartStale(from, to) == from

\* start = end
NextStart(from, to) == to

PdInit ==
    /\ devices \in DeviceMaps
    /\ pdPc = "lsblk"
    /\ pdNodes = Sorted(DOMAIN devices)
    /\ pdDisks = Sorted(DOMAIN devices[1])
    /\ pdMounts = 0
    /\ pdParts = << >>
    /\ start = 0
    /\ commands = << >>

PdIdle ==
    /\ devices = << >>
    /\ pdPc = "idle"
    /\ pdNodes = << >>
    /\ pdDisks = << >>
    /\ pdMounts = 0
    /\ pdParts = << >>
    /\ start = 0
    /\ commands = << >>

\* (mutant) the CommandException is caught and partitionDevices returns
PdSwallow(cmd, index, from, to) ==
    /\ commands' = Append(commands, Command(pdNodes[1], pdDisks[1], cmd, index, from, to, FALSE))
    /\ pdPc' = "returned"
    /\ UNCHANGED <<devices, pdNodes, pdDisks, pdMounts, pdParts, start>>

\* a CommandException leaves partitionDevices
PdRaise(cmd, index, from, to) ==
    /\ commands' = Append(commands, Command(pdNodes[1], pdDisks[1], cmd, index, from, to, FALSE))
    /\ pdPc' = "raised"
    /\ UNCHANGED <<devices, pdNodes, pdDisks, pdMounts, pdParts, start>>

PdLog(cmd, index, from, to) ==
    commands' = Append(commands, Command(pdNodes[1], pdDisks[1], cmd, index, from, to, TRUE))

\* lsblk --output mountpoint /dev/<disk>: fails, or lists the mountpoints
DetectMountPoints ==
    /\ pdPc = "lsblk"
    /\ \/ PdRaise("lsblk", 0, 0, 0)
       \/ /\ PdLog("lsblk", 0, 0, 0)
          /\ \E n \in 0..MaxMounts :
               /\ pdMounts' = n
               /\ pdPc' = IF n > 0 THEN "umount" ELSE "mklabel"
          /\ UNCHANGED <<devices, pdNodes, pdDisks, pdParts, start>>
    /\ UNCHANGED pdOthers

\* umount -f <mountPoint>
Unmount ==
    /\ pdPc = "umount"
    /\ \/ PdRaise("umount", pdMounts, 0, 0)
       \/ /\ PdLog("umount", pdMounts, 0, 0)
          /\ pdPc' = "sed"
          /\ UNCHANGED <<devices, pdNodes, pdDisks, pdMounts, pdParts, start>>
    /\ UNCHANGED pdOthers

\* sed --in-place ... /etc/fstab
RemoveFstabEntry ==
    /\ pdPc = "sed"
    /\ \/ PdRaise("sed", pdMounts, 0, 0)
       \/ /\ PdLog("sed", pdMounts, 0, 0)
          /\ pdPc' = "rmdir"
          /\ UNCHANGED <<devices, pdNodes, pdDisks, pdMounts, pdParts, start>>
    /\ UNCHANGED pdOthers

\* /bin/rmdir <mountPoint>, then the next mountpoint or the label
RemoveMountPoint ==
    /\ pdPc = "rmdir"
    /\ \/ PdRaise("rmdir", pdMounts, 0, 0)
       \/ /\ PdLog("rmdir", pdMounts, 0, 0)
          /\ pdMounts' = pdMounts - 1
          /\ pdPc' = IF pdMounts > 1 THEN "umount" ELSE "mklabel"
          /\ UNCHANGED <<devices, pdNodes, pdDisks, pdParts, start>>
    /\ UNCHANGED pdOthers

\* (mutant) a failed mklabel is logged and the partition loop entered all the same
CreatePartitionTableUnchecked ==
    /\ pdPc = "mklabel"
    /\ \E ok \in BOOLEAN :
          commands' = Append(commands, Command(pdNodes[1], pdDisks[1], "mklabel", 0, 0, 0, ok))
    /\ pdParts' = Sorted(DOMAIN devices[pdNodes[1]][pdDisks[1]])
    /\ pdPc' = IF pdParts' /= << >> THEN "mkpart" ELSE "returned"
    /\ start' = 0
    /\ UNCHANGED <<devices, pdNodes, pdDisks, pdMounts>>
    /\ UNCHANGED pdOthers

\* parted -s /dev/<disk> mklabel gpt, then `start = 0` and the partition loop
CreatePartitionTable ==
    /\ pdPc = "mklabel"
    /\ \/ PdRaise("mklabel", 0, 0, 0)
       \/ /\ PdLog("mklabel", 0, 0, 0)
          /\ LET parts == Sorted(DOMAIN devices[pdNodes[1]][pdDisks[1]])
                 next == AfterDisk(pdNodes, pdDisks)
             IN  IF parts /= << >>
                 THEN /\ pdParts' = parts
                      /\ pdPc' = "mkpart"
                      /\ UNCHANGED <<pdNodes, pdDisks>>
                 ELSE /\ pdParts' = << >>
                      /\ pdPc' = next.pc
                      /\ pdNodes' = next.nodes
                      /\ pdDisks' = next.disks
          /\ start' = 0
          /\ UNCHANGED <<devices, pdMounts>>
    /\ UNCHANGED pdOthers

\* parted -s -a optimal /dev/<disk> mkpart primary <start>% <end>%
CreatePartition ==
    /\ pdPc = "mkpart"
    /\ LET partitionIndex == pdParts[1]
           partition == devices[pdNodes[1]][pdDisks[1]][partitionIndex]
           end == PartitionEnd(start, partition)
           next == AfterDisk(pdNodes, pdDisks)
       IN  \/ PdRaise("mkpart", partitionIndex, start, end)
           \/ /\ PdLog("mkpart", partitionIndex, start, end)
              /\ start' = NextStart(start, end)
              /\ pdParts' = Tail(pdParts)
              /\ IF Len(pdParts) > 1
                 THEN UNCHANGED <<pdPc, pdNodes, pdDisks>>
                 ELSE /\ pdPc' = next.pc
                      /\ pdNodes' = next.nodes
                      /\ pdDisks' = next.disks
              /\ UNCHANGED <<devices, pdMounts>>
    /\ UNCHANGED pdOthers

PdNext ==
    \/ DetectMountPoints
    \/ Unmount
    \/ RemoveFstabEntry
    \/ RemoveMountPoint
    \/ CreatePartitionTable
    \/ CreatePartition

\* ------------------------------------------------------------------------
\* c4.utils.scsi.base

DictSet(d, k, v) == [x \in DOMAIN d \cup {k} |-> IF x = k THEN v ELSE d[x]]
DictDel(d, k) == [x \in DOMAIN d \ {k} |-> d[x]]

JBOD1 == <<"J", "B", "O", "D", "1">>
JBOD2 == <<"J", "B", "O", "D", "2">>
SN1 == <<"S", "N", "1">>
SN2 == <<"S", "N", "2">>
SN9 == <<"S", "N", "9">>
Yes == <<"Y", "e", "s">>
No == <<"N", "o">>

\* `currentDeviceNumber = None`
NoDevice == -1

\* a physical device object, and the None a logical device holds in its place
\* until fromString resolves it
PhysicalDeviceInfo(properties) == [isNone |-> FALSE, properties |-> properties]
NonePlaceholder == [isNone |-> TRUE, properties |-> EmptyDict]

LogicalDeviceInfo(properties) == [properties |-> properties, physicalDevices |-> EmptyDict]

\* AdaptecPhysicalDeviceInfo.isSSD
AdaptecIsSSD(device) == device.properties["SSD"] = Yes

\* LSIPhysicalDeviceInfo.isSSD
LsiIsSSD(device) == device.properties["Med"] = "SSD"

\* physicalDevice.isSSD, by the class of the device
PhysicalIsSSD(v, device) == IF v = "adaptec" THEN AdaptecIsSSD(device) ELSE LsiIsSSD(device)

\* LogicalDeviceInfo.isSSD: all([physicalDevice.isSSD for physicalDevice in ...])
LogicalIsSSD(v, device) ==
    \A k \in DOMAIN device.physicalDevices : PhysicalIsSSD(v, device.physicalDevices[k])

\* AdaptecLogicalDeviceInfo.name / LSILogicalDeviceInfo.name
Name(v, device) ==
    IF v = "adaptec" THEN device.properties["Logical device name"]
    ELSE device.properties["Name"]

\* ControllerInfo.logicalDevicesbyNameMap: of two devices with one name the
\* one iterated last (the higher number) stays
LogicalDevicesbyNameMap(v, lds) ==
    [nm \in {Name(v, lds[n]) : n \in DOMAIN lds} |->
        lds[CHOOSE n \in DOMAIN lds :
              /\ Name(v, lds[n]) = nm
              /\ \A m \in DOMAIN lds : Name(v, lds[m]) = nm => m <= n]]

\* the resolution loop of fromString: every key of every logical device's
\* physicalDevices is looked up in `byKey`
Unresolved(lds, byKey) ==
    \E n \in DOMAIN lds : \E k \in DOMAIN lds[n].physicalDevices : k \notin DOMAIN byKey

\* (mutant) the loop body never runs: every reference keeps its None
ResolveNothing(lds, byKey) == lds

\* logicalDevice.physicalDevices[key] = byKey[key], for every key
Resolve(lds, byKey) ==
    [n \in DOMAIN lds |->
        [lds[n] EXCEPT !.physicalDevices =
            [k \in DOMAIN lds[n].physicalDevices |-> byKey[k]]]]

\* (mutant) a reference without a match is skipped (dict.get) and keeps its None
ResolveAllLenient(lds, byKey) ==
    [exc |-> None,
     devices |->
        [n \in DOMAIN lds |->
            [lds[n] EXCEPT !.physicalDevices =
                [k \in DOMAIN lds[n].physicalDevices |->
                    IF k \in DOMAIN byKey THEN byKey[k] ELSE NonePlaceholder]]]]

\* the two nested loops: byKey[key] raises KeyError at the first key without
\* a match
ResolveAll(lds, byKey) ==
    IF Unresolved(lds, byKey) THEN [exc |-> "KeyError", devices |-> lds]
    ELSE [exc |-> None, devices |-> Resolve(lds, byKey)]

\* ------------------------------------------------------------------------
\* c4.utils.scsi.adaptec

\* the lines of `arcconf getconfig 1 ld` and `arcconf getconfig 1 pd`
Line(kind, num, key, value) == [kind |-> kind, num |-> num, key |-> key, value |-> value]
HeaderLine(n) == Line("header", n, "Controllers found", EmptyStr)
LdNumberLine(n) == Line("ldnum", n, "Logical device number", EmptyStr)
DeviceNumberLine(n) == Line("devnum", n, "Device #", EmptyStr)
DeviceIsLine(what) == Line("deviceis", 0, what, EmptyStr)
AttributeLine(key, value) == Line("attr", 0, key, value)
SegmentLine(n, serial) == Line("segment", n, "Segment", serial)
IgnoredLine == Line("ignored", 0, "", EmptyStr)

\* one logical device of the ld dump
RECURSIVE SegmentLines(_, _)
SegmentLines(serials, n) ==
    IF serials = << >> THEN << >>
    ELSE <<SegmentLine(n, Head(serials))>> \o SegmentLines(Tail(serials), n + 1)

LdBlock(n, name, serials) ==
    <<LdNumberLine(n), AttributeLine("Logical device name", name),
      AttributeLine("RAID level", <<"S">>), IgnoredLine>>
    \o SegmentLines(serials, 0) \o <<IgnoredLine>>

SegmentChoices == {<< >>, <<SN1>>, <<SN2>>, <<SN9>>, <<SN1, SN2>>, <<SN2, SN9>>, <<EmptyStr>>}

RECURSIVE LdBlocks(_)
\* the dumps of n logical devices, numbered from 0
LdBlocks(n) ==
    IF n = 0 THEN {<< >>}
    ELSE {front \o LdBlock(n - 1, name, serials) :
            front \in LdBlocks(n - 1), name \in {JBOD1, JBOD2}, serials \in SegmentChoices}

LdDumps ==
    {<<IgnoredLine>>, <<HeaderLine(0), IgnoredLine>>}
    \cup {<<HeaderLine(1), IgnoredLine>> \o blocks :
            blocks \in UNION {LdBlocks(n) : n \in 0..MaxLogicalDevices}}

PdBlock(n, serial, ssd) ==
    <<DeviceNumberLine(n), DeviceIsLine("Device is a Hard drive"),
      AttributeLine("Serial number", serial), AttributeLine("SSD", ssd), IgnoredLine>>

EnclosureBlock(n) ==
    <<DeviceNumberLine(n), DeviceIsLine("Device is an Enclosure services device"),
      AttributeLine("Vendor", <<"A">>), IgnoredLine>>

PdDumps ==
    {<<HeaderLine(1), IgnoredLine>> \o PdBlock(0, SN1, a) \o PdBlock(1, SN2, b) \o tail :
        a \in {Yes, No}, b \in {Yes, No}, tail \in {<< >>, EnclosureBlock(2)}}

\* re.search("Controllers found:\s+(\d+)", logicalDevicesString)
ControllersFound(lines) ==
    LET hits == {i \in 1..Len(lines) : lines[i].kind = "header"}
    IN  IF hits = {} THEN NoDevice
        ELSE lines[CHOOSE i \in hits : \A j \in hits : i <= j].num

\* one line of parseLogicalDevicesString; st = [devices, current, exc]
LdLine(st, line) ==
    IF st.exc /= None THEN st
    ELSE IF line.kind = "ldnum"
    THEN [st EXCEPT !.current = line.num,
                    !.devices = DictSet(@, line.num,
                        LogicalDeviceInfo([k \in {"Logical device number"} |-> line.num]))]
    ELSE IF st.current = NoDevice THEN st
    ELSE IF line.kind = "ignored" THEN st
    ELSE IF line.kind = "segment"
    THEN IF line.value = EmptyStr               \* "Segment 0 : Missing": no match
         THEN [st EXCEPT !.exc = "AttributeError"]
         ELSE [st EXCEPT !.devices[st.current].physicalDevices =
                             DictSet(@, line.value, NonePlaceholder)]
    ELSE IF line.kind = "attr"
    THEN [st EXCEPT !.devices[st.current].properties = DictSet(@, line.key, line.value)]
    ELSE [st EXCEPT !.exc = "ValueError"]      \* no " : " to split at

RECURSIVE LdLines(_, _)
LdLines(st, lines) ==
    IF lines = << >> THEN st ELSE LdLines(LdLine(st, Head(lines)), Tail(lines))

\* AdaptecDevicesInfo.parseLogicalDevicesString
AdaptecParseLogicalDevicesString(lines) ==
    LdLines([devices |-> EmptyDict, current |-> NoDevice, exc |-> None], lines)

\* one line of parsePhysicalDevicesString
PdLine(st, line) ==
    IF st.exc /= None THEN st
    ELSE IF line.kind = "devnum"
    THEN [st EXCEPT !.current = line.num,
                    !.devices = DictSet(@, line.num,
                        PhysicalDeviceInfo([k \in {"Device #"} |-> line.num]))]
    ELSE IF st.current = NoDevice THEN st
    ELSE IF line.kind = "ignored" THEN st
    ELSE IF line.kind = "deviceis"
    THEN IF line.key = "Device is an Enclosure services device"
         THEN [st EXCEPT !.devices = DictDel(@, st.current), !.current = NoDevice]
         ELSE st
    ELSE IF line.kind = "attr"
    THEN [st EXCEPT !.devices[st.current].properties = DictSet(@, line.key, line.value)]
    ELSE [st EXCEPT !.exc = "ValueError"]

RECURSIVE PdLines(_, _)
PdLines(st, lines) ==
    IF lines = << >> THEN st ELSE PdLines(PdLine(st, Head(lines)), Tail(lines))

\* AdaptecDevicesInfo.parsePhysicalDevicesString: the devices by serial number
AdaptecParsePhysicalDevicesString(lines) ==
    LET st == PdLines([devices |-> EmptyDict, current |-> NoDevice, exc |-> None], lines)
        byNumber == st.devices
    IN  IF st.exc /= None THEN [exc |-> st.exc, devices |-> EmptyDict]
        ELSE IF \E n \in DOMAIN byNumber : "Serial number" \notin DOMAIN byNumber[n].properties
        THEN [exc |-> "KeyError", devices |-> EmptyDict]
        ELSE [exc |-> None,
              devices |->
                [serial \in {byNumber[n].properties["Serial number"] : n \in DOMAIN byNumber} |->
                    byNumber[CHOOSE n \in DOMAIN byNumber :
                        /\ byNumber[n].properties["Serial number"] = serial
                        /\ \A m \in DOMAIN byNumber :
                              byNumber[m].properties["Serial number"] = serial => m <= n]]]

ScsiIdle ==
    /\ vendor = None
    /\ logicalDevicesString = << >>
    /\ physicalDevicesString = << >>
    /\ physicalDevices = EmptyDict
    /\ logicalDevices = EmptyDict
    /\ controllers = EmptyDict
    /\ scsiPc = "idle"
    /\ scsiExc = None
    /\ isSSDResult = EmptyDict

AdaptecInit ==
    /\ vendor = "adaptec"
    /\ logicalDevicesString \in LdDumps
    /\ physicalDevicesString \in PdDumps
    /\ physicalDevices = EmptyDict
    /\ logicalDevices = EmptyDict
    /\ controllers = EmptyDict
    /\ scsiPc = "start"
    /\ scsiExc = None
    /\ isSSDResult = EmptyDict

ScsiRaise(exc) ==
    /\ scsiPc' = "raised"
    /\ scsiExc' = exc
    /\ UNCHANGED <<physicalDevices, logicalDevices, controllers>>

\* fromString up to `if controllers == 0: return info`
AdaptecCountControllers ==
    /\ vendor = "adaptec" /\ scsiPc = "start"
    /\ LET found == ControllersFound(logicalDevicesString)
       IN  IF found = NoDevice THEN ScsiRaise("AttributeError")
           ELSE /\ scsiPc' = IF found = 0 THEN "returned" ELSE "physical"
                /\ UNCHANGED <<physicalDevices, logicalDevices, controllers, scsiExc>>
    /\ UNCHANGED <<vendor, logicalDevicesString, physicalDevicesString, isSSDResult>>
    /\ UNCHANGED scsiOthers

\* controllerInfo.physicalDevices = cls.parsePhysicalDevicesString(...)
AdaptecParsePhysical ==
    /\ vendor = "adaptec" /\ scsiPc = "physical"
    /\ LET r == AdaptecParsePhysicalDevicesString(physicalDevicesString)
       IN  IF r.exc /= None THEN ScsiRaise(r.exc)
           ELSE /\ physicalDevices' = r.devices
                /\ scsiPc' = "logical"
                /\ UNCHANGED <<logicalDevices, controllers, scsiExc>>
    /\ UNCHANGED <<vendor, logicalDevicesString, physicalDevicesString, isSSDResult>>
    /\ UNCHANGED scsiOthers

\* controllerInfo.logicalDevices = cls.parseLogicalDevicesString(...)
AdaptecParseLogical ==
    /\ vendor = "adaptec" /\ scsiPc = "logical"
    /\ LET r == AdaptecParseLogicalDevicesString(logicalDevicesString)
       IN  IF r.exc /= None THEN ScsiRaise(r.exc)
           ELSE /\ logicalDevices' = r.devices
                /\ scsiPc' = "resolve"
                /\ UNCHANGED <<physicalDevices, controllers, scsiExc>>
    /\ UNCHANGED <<vendor, logicalDevicesString, physicalDevicesString, isSSDResult>>
    /\ UNCHANGED scsiOthers

\* the resolution loop and `info.controllers[0] = controllerInfo`
AdaptecResolve ==
    /\ vendor = "adaptec" /\ scsiPc = "resolve"
    /\ LET r == ResolveAll(logicalDevices, physicalDevices)
       IN  IF r.exc /= None THEN ScsiRaise(r.exc)
           ELSE /\ logicalDevices' = r.devices
                /\ controllers' = [c \in {0} |->
                                     [controller |-> 0,
                                      logicalDevices |-> r.devices,
                                      physicalDevices |-> physicalDevices]]
                /\ scsiPc' = "returned"
                /\ UNCHANGED <<physicalDevices, scsiExc>>
    /\ UNCHANGED <<vendor, logicalDevicesString, physicalDevicesString, isSSDResult>>
    /\ UNCHANGED scsiOthers

\* ------------------------------------------------------------------------
\* c4.utils.scsi.lsi
\*
\* The arguments are JSON texts; the model holds the value json.loads returns.
\* A key of "Response Data" is kept in parts, so that what the regular
\* expressions extract and what str.format builds can be compared:
\*   "/c0/v1"                                  <<"/c/v", 0, 1>>
\*   "VD1 Properties"                          <<"VD Properties", 1>>
\*   "PDs for VD 1"                            <<"PDs for VD", 1>>
\*   "Drive /c0/e8/s1"                         <<"Drive", 0, 1>>
\*   "Drive /c0/e8/s1 - Detailed Information"  <<"Drive Detailed", 0, 1>>

SN3 == <<"S", "N", "3">>
Digits == <<"0", "1", "2", "3", "4", "5", "6", "7", "8", "9">>
VdName(v) == <<"V", "D", Digits[v + 1]>>

DictUpdate(d, e) == [k \in DOMAIN d \cup DOMAIN e |-> IF k \in DOMAIN e THEN e[k] ELSE d[k]]

ControllerJson(status, id, data) ==
    [status |-> status, controller |-> id, data |-> data]

\* "Response Data" of /call/eall/sall show all J for controller c;
\* drives: slot -> [did, med, sn]
DrivesData(c, drives) ==
    [k \in {<<"Drive", c, slot>> : slot \in DOMAIN drives}
           \cup {<<"Drive Detailed", c, slot>> : slot \in DOMAIN drives} |->
        IF k[1] = "Drive"
        THEN <<[dk \in {"DID", "Med"} |->
                  IF dk = "DID" THEN drives[k[3]].did ELSE drives[k[3]].med]>>
        ELSE [dk \in {"Device attributes", "Inquiry Data"} |->
                  [ak \in {"SN"} |-> drives[k[3]].sn]]]

\* "Response Data" of /call/vall show all J for controller c;
\* vds: number -> [name, dids]
VdsData(c, vds) ==
    [k \in {<<"/c/v", c, v>> : v \in DOMAIN vds}
           \cup {<<"VD Properties", v>> : v \in DOMAIN vds}
           \cup {<<"PDs for VD", v>> : v \in DOMAIN vds} |->
        IF k[1] = "/c/v" THEN <<[dk \in {"Name"} |-> vds[k[3]].name]>>
        ELSE IF k[1] = "VD Properties" THEN [dk \in {"Strip Size"} |-> "64 KB"]
        ELSE [i \in DOMAIN vds[k[2]].dids |-> [dk \in {"DID"} |-> vds[k[2]].dids[i]]]]

Statuses == {"Success", "Failure"}
Media == {"SSD", "HDD"}
DidChoices == {<< >>, <<10>>, <<10, 11>>, <<99>>}

FirstDrives(m0, m1) ==
    [slot \in {0, 1} |->
        IF slot = 0 THEN [did |-> 10, med |-> m0, sn |-> SN1]
        ELSE [did |-> 11, med |-> m1, sn |-> SN2]]

SecondDrives == [slot \in {0} |-> [did |-> 12, med |-> "HDD", sn |-> SN3]]

LsiPdDumps ==
    {<<ControllerJson(st, 0, DrivesData(0, FirstDrives(m0, m1)))>> \o more :
        st \in Statuses, m0 \in Media, m1 \in Media,
        more \in {<< >>} \cup {<<ControllerJson(st1, 1, DrivesData(1, SecondDrives))>> :
                                  st1 \in Statuses}}

\* the virtual drives 0..n-1, each with any of the drive lists
VdChoices(n) == [0..(n - 1) -> {[name |-> nm, dids |-> ds] : nm \in {None}, ds \in DidChoices}]

NamedVds(vds) == [v \in DOMAIN vds |-> [vds[v] EXCEPT !.name = VdName(v)]]

LsiLdDumps ==
    {<<ControllerJson(st, 0, VdsData(0, NamedVds(vds)))>> \o more :
        st \in Statuses,
        vds \in UNION {VdChoices(n) : n \in 0..MaxLogicalDevices},
        more \in {<< >>, <<ControllerJson("Failure", 1, EmptyDict)>>}
                 \cup {<<ControllerJson("Success", 1,
                           VdsData(1, [v \in {0} |-> [name |-> VdName(9), dids |-> ds]]))>> :
                         ds \in {<<12>>, <<10>>}}}

RECURSIVE MergeDetails(_, _, _)
\* properties.update(detailValue) for every detailKey but "Inquiry Data"
MergeDetails(properties, details, keys) ==
    IF keys = {} THEN properties
    ELSE LET dk == CHOOSE x \in keys : TRUE
         IN  MergeDetails(IF dk /= "Inquiry Data" THEN DictUpdate(properties, details[dk])
                          ELSE properties,
                          details, keys \ {dk})

\* the physical devices of one controller's "Response Data", by position; the
\* detailed information is looked up under "/c0/" whatever the controller
LsiControllerPhysicalDevices(data) ==
    LET drives == {k \in DOMAIN data : k[1] = "Drive"}
        positions == {k[3] : k \in drives}
        keyOf(pos) == CHOOSE k \in drives : k[3] = pos
    IN  IF \E pos \in positions : <<"Drive Detailed", 0, pos>> \notin DOMAIN data
        THEN [exc |-> "KeyError", devices |-> EmptyDict]
        ELSE [exc |-> None,
              devices |->
                [pos \in positions |->
                    LET details == data[<<"Drive Detailed", 0, pos>>]
                    IN  PhysicalDeviceInfo(
                            MergeDetails(data[keyOf(pos)][1], details, DOMAIN details))]]

\* the logical devices of one controller's "Response Data", by number
LsiControllerLogicalDevices(data) ==
    LET vds == {k \in DOMAIN data : k[1] = "/c/v"}
        numbers == {k[3] : k \in vds}
        keyOf(v) == CHOOSE k \in vds : k[3] = v
    IN  IF \E v \in numbers : \/ <<"VD Properties", v>> \notin DOMAIN data
                              \/ <<"PDs for VD", v>> \notin DOMAIN data
        THEN [exc |-> "KeyError", devices |-> EmptyDict]
        ELSE [exc |-> None,
              devices |->
                [v \in numbers |->
                    LET mappings == data[<<"PDs for VD", v>>]
                    IN  [properties |->
                            DictUpdate(data[keyOf(v)][1], data[<<"VD Properties", v>>]),
                         physicalDevices |->
                            [did \in {mappings[i]["DID"] : i \in DOMAIN mappings} |->
                                NonePlaceholder]]]]

\* the comprehension and the loop a parser runs on one "Response Data"
LsiControllerDevices(what, data) ==
    IF what = "physical" THEN LsiControllerPhysicalDevices(data)
    ELSE LsiControllerLogicalDevices(data)

RECURSIVE LsiControllers(_, _, _)
\* the loop over json.loads(...).get("Controllers", []); st = [controllers, exc]
LsiControllers(st, list, what) ==
    IF list = << >> \/ st.exc /= None THEN st
    ELSE LET controller == Head(list)
         IN  IF controller.status = "Success"
             THEN LET r == LsiControllerDevices(what, controller.data)
                  IN  IF r.exc /= None THEN [st EXCEPT !.exc = r.exc]
                      ELSE LsiControllers(
                              [st EXCEPT !.controllers =
                                  DictSet(@, controller.controller, r.devices)],
                              Tail(list), what)
             ELSE LsiControllers(st, Tail(list), what)      \* log.error(...)

RECURSIVE UpdateBySerial(_, _, _)
\* allPhysicalDevices.update({device.serialNumber: device ...}), controller by
\* controller in the order of the dict
UpdateBySerial(all, controllersById, ids) ==
    IF ids = {} THEN all
    ELSE LET id == CHOOSE x \in ids : \A y \in ids : x <= y
             devs == controllersById[id]
         IN  UpdateBySerial(
                DictUpdate(all, [sn \in {devs[p].properties["SN"] : p \in DOMAIN devs} |->
                                   devs[CHOOSE p \in DOMAIN devs :
                                          /\ devs[p].properties["SN"] = sn
                                          /\ \A q \in DOMAIN devs :
                                                devs[q].properties["SN"] = sn => q <= p]]),
                controllersById, ids \ {id})

\* LSIDevicesInfo.parsePhysicalDevicesString
LsiParsePhysicalDevicesString(json) ==
    LET st == LsiControllers([controllers |-> EmptyDict, exc |-> None], json, "physical")
    IN  IF st.exc /= None THEN [exc |-> st.exc, devices |-> EmptyDict]
        ELSE IF \E id \in DOMAIN st.controllers : \E p \in DOMAIN st.controllers[id] :
                    "SN" \notin DOMAIN st.controllers[id][p].properties
        THEN [exc |-> "KeyError", devices |-> EmptyDict]
        ELSE [exc |-> None,
              devices |-> UpdateBySerial(EmptyDict, st.controllers, DOMAIN st.controllers)]

\* `return logicalDevices`: the name is last bound by the final loop, to the
\* devices of the last controller of the dict
LsiReturned(controllersById) ==
    controllersById[CHOOSE x \in DOMAIN controllersById :
                        \A y \in DOMAIN controllersById : y <= x]

\* LSIDevicesInfo.parseLogicalDevicesString
LsiParseLogicalDevicesString(json) ==
    LET st == LsiControllers([controllers |-> EmptyDict, exc |-> None], json, "logical")
    IN  IF st.exc /= None THEN [exc |-> st.exc, devices |-> EmptyDict]
        ELSE IF DOMAIN st.controllers = {}
        THEN [exc |-> "UnboundLocalError", devices |-> EmptyDict]
        ELSE [exc |-> None, devices |-> LsiReturned(st.controllers)]

\* ControllerInfo.physicalDevicesbyIdMap with LSIPhysicalDeviceInfo.id
PhysicalDevicesbyIdMap(bySerial) ==
    [did \in {bySerial[sn].properties["DID"] : sn \in DOMAIN bySerial} |->
        bySerial[CHOOSE sn \in DOMAIN bySerial : bySerial[sn].properties["DID"] = did]]

LsiInit ==
    /\ vendor = "lsi"
    /\ logicalDevicesString \in LsiLdDumps
    /\ physicalDevicesString \in LsiPdDumps
    /\ physicalDevices = EmptyDict
    /\ logicalDevices = EmptyDict
    /\ controllers = EmptyDict
    /\ scsiPc = "physical"
    /\ scsiExc = None
    /\ isSSDResult = EmptyDict

\* controllerInfo.physicalDevices = cls.parsePhysicalDevicesString(...)
LsiParsePhysical ==
    /\ vendor = "lsi" /\ scsiPc = "physical"
    /\ LET r == LsiParsePhysicalDevicesString(physicalDevicesString)
       IN  IF r.exc /= None THEN ScsiRaise(r.exc)
           ELSE /\ physicalDevices' = r.devices
                /\ scsiPc' = "logical"
                /\ UNCHANGED <<logicalDevices, controllers, scsiExc>>
    /\ UNCHANGED <<vendor, logicalDevicesString, physicalDevicesString, isSSDResult>>
    /\ UNCHANGED scsiOthers

\* controllerInfo.logicalDevices = cls.parseLogicalDevicesString(...)
LsiParseLogical ==
    /\ vendor = "lsi" /\ scsiPc = "logical"
    /\ LET r == LsiParseLogicalDevicesString(logicalDevicesString)
       IN  IF r.exc /= None THEN ScsiRaise(r.exc)
           ELSE /\ logicalDevices' = r.devices
                /\ scsiPc' = "resolve"
                /\ UNCHANGED <<physicalDevices, controllers, scsiExc>>
    /\ UNCHANGED <<vendor, logicalDevicesString, physicalDevicesString, isSSDResult>>
    /\ UNCHANGED scsiOthers

\* the resolution loop over physicalDevicesbyIdMap and
\* `info.controllers[0] = controllerInfo`
LsiResolve ==
    /\ vendor = "lsi" /\ scsiPc = "resolve"
    /\ LET r == ResolveAll(logicalDevices, PhysicalDevicesbyIdMap(physicalDevices))
       IN  IF r.exc /= None THEN ScsiRaise(r.exc)
           ELSE /\ logicalDevices' = r.devices
                /\ controllers' = [c \in {0} |->
                                     [controller |-> 0,
                                      logicalDevices |-> r.devices,
                                      physicalDevices |-> physicalDevices]]
                /\ scsiPc' = "returned"
                /\ UNCHANGED <<physicalDevices, scsiExc>>
    /\ UNCHANGED <<vendor, logicalDevicesString, physicalDevicesString, isSSDResult>>
    /\ UNCHANGED scsiOthers

\* info.controllers[0].logicalDevices[n].isSSD on a parse that returned
IsSSD ==
    /\ scsiPc = "returned"
    /\ 0 \in DOMAIN controllers
    /\ \E n \in DOMAIN controllers[0].logicalDevices :
          /\ n \notin DOMAIN isSSDResult
          /\ isSSDResult' =
                DictSet(isSSDResult, n,
                        PyBool(LogicalIsSSD(vendor, controllers[0].logicalDevices[n])))
    /\ UNCHANGED <<vendor, logicalDevicesString, physicalDevicesString, physicalDevices,
                   logicalDevices, controllers, scsiPc, scsiExc>>
    /\ UNCHANGED scsiOthers

\* ------------------------------------------------------------------------
\* BlockDeviceMapping
\*
\* A token of `ls /sys/bus/scsi/devices/*/block` is kept with what the regular
\* expression finds in it: "/sys/bus/scsi/devices/0:0:1:0/block:" is a "path"
\* token with hbtl <<0, 0, 1, 0>>; any other token has no match.

Hbtl(h, b, t, l) == <<h, b, t, l>>

PathToken(hbtl) ==
    [kind |-> "path", hbtl |-> hbtl,
     text |-> <<"/">> \o [i \in 1..4 |-> Digits[hbtl[i] + 1]]]

NameToken(name) == [kind |-> "name", hbtl |-> << >>, text |-> name]

\* a bus path without an H:B:T:L part ("/sys/bus/scsi/devices/host0/block:")
OtherToken == [kind |-> "other", hbtl |-> << >>, text |-> <<"/", "h">>]

Tokens ==
    {PathToken(Hbtl(0, 0, 0, 0)), PathToken(Hbtl(0, 0, 1, 0)),
     NameToken(sdx), NameToken(sdy), OtherToken}

RECURSIVE TokenLists(_)
TokenLists(n) ==
    IF n = 0 THEN {<< >>}
    ELSE TokenLists(n - 1)
         \cup {Append(l, t) : l \in {l \in TokenLists(n - 1) : Len(l) = n - 1}, t \in Tokens}

RECURSIVE BdmChunks(_, _)
\* the dict comprehension over chunks(string.split(), 2); st = [devices, exc]
BdmChunks(st, tokens) ==
    IF tokens = << >> THEN st
    ELSE IF Len(tokens) = 1
    THEN [st EXCEPT !.exc = "ValueError"]           \* blockDevice, name = [token]
    ELSE IF tokens[1].kind /= "path"
    THEN [st EXCEPT !.exc = "AttributeError"]       \* re.search(...) is None
    ELSE BdmChunks([st EXCEPT !.devices = DictSet(@, tokens[1].hbtl, tokens[2].text)],
                   Tail(Tail(tokens)))

RECURSIVE BdmChunksLenient(_, _)
BdmChunksLenient(st, tokens) ==
    IF Len(tokens) < 2 THEN st
    ELSE BdmChunksLenient(
            IF tokens[1].kind /= "path" THEN st
            ELSE [st EXCEPT !.devices = DictSet(@, tokens[1].hbtl, tokens[2].text)],
            Tail(Tail(tokens)))

\* (mutant) a pair without a match, and a token left over, are skipped
BlockDeviceMappingFromStringLenient(tokens) ==
    BdmChunksLenient([devices |-> EmptyDict, exc |-> None], tokens)

\* BlockDeviceMapping.fromString
BlockDeviceMappingFromString(tokens) ==
    BdmChunks([devices |-> EmptyDict, exc |-> None], tokens)

\* BlockDeviceMapping.IDbyDeviceNameMap: the third number of the id, by name
IDbyDeviceNameMap(devs) ==
    [name \in {devs[k] : k \in DOMAIN devs} |->
        (CHOOSE k \in DOMAIN devs : devs[k] = name)[3]]

BdmIdle ==
    /\ bdmString = << >>
    /\ bdmDevices = EmptyDict
    /\ bdmPc = "idle"
    /\ bdmExc = None

BdmInit ==
    /\ bdmString \in TokenLists(MaxTokens)
    /\ bdmDevices = EmptyDict
    /\ bdmPc = "start"
    /\ bdmExc = None

fromString ==
    /\ bdmPc = "start"
    /\ LET r == BlockDeviceMappingFromString(bdmString)
       IN  IF r.exc /= None
           THEN bdmPc' = "raised" /\ bdmExc' = r.exc /\ UNCHANGED bdmDevices
           ELSE bdmPc' = "returned" /\ bdmDevices' = r.devices /\ UNCHANGED bdmExc
    /\ UNCHANGED bdmString
    /\ UNCHANGED bdmOthers

\* ------------------------------------------------------------------------
\* addAdaptecControllerInformation

JBOD == <<"J", "B", "O", "D">>
JBOD3 == <<"J", "B", "O", "D", "3">>

\* AdaptecDevicesInfo.fromString from the first line to the last
AdaptecFromString(ld, pd) ==
    LET found == ControllersFound(ld)
        physical == AdaptecParsePhysicalDevicesString(pd)
        logical == AdaptecParseLogicalDevicesString(ld)
        resolved == ResolveAll(logical.devices, physical.devices)
    IN  IF found = NoDevice THEN [exc |-> "AttributeError", controllers |-> EmptyDict]
        ELSE IF found = 0 THEN [exc |-> None, controllers |-> EmptyDict]
        ELSE IF physical.exc /= None THEN [exc |-> physical.exc, controllers |-> EmptyDict]
        ELSE IF logical.exc /= None THEN [exc |-> logical.exc, controllers |-> EmptyDict]
        ELSE IF resolved.exc /= None THEN [exc |-> resolved.exc, controllers |-> EmptyDict]
        ELSE [exc |-> None,
              controllers |-> [c \in {0} |->
                                 [controller |-> 0,
                                  logicalDevices |-> resolved.devices,
                                  physicalDevices |-> physical.devices]]]

\* the ld dumps the controller information is parsed from: no controller, or
\* JBOD1 alone, or JBOD1 and JBOD2, on any of the two drives
RcSegmentChoices == {<< >>, <<SN1>>, <<SN2>>, <<SN1, SN2>>}

RcLdDumps ==
    {<<HeaderLine(0), IgnoredLine>>}
    \cup {<<HeaderLine(1), IgnoredLine>> \o LdBlock(0, JBOD1, s0) : s0 \in RcSegmentChoices}
    \cup {<<HeaderLine(1), IgnoredLine>> \o LdBlock(0, JBOD1, s0) \o LdBlock(1, JBOD2, s1) :
            s0 \in RcSegmentChoices, s1 \in RcSegmentChoices}

\* what a caller can hand in as devicesInfo: a parsed AdaptecDevicesInfo, or
\* something else ({})
DevicesInfos ==
    {[class |-> "AdaptecDevicesInfo", controllers |-> AdaptecFromString(ld, pd).controllers] :
        ld \in RcLdDumps, pd \in PdDumps}
    \cup {[class |-> "dict", controllers |-> EmptyDict]}

DiskModels == {JBOD1, JBOD2, JBOD3, SEAGATE}

\* (mutant) an SSD verdict switches the type over
SetTypeToggle(disk, isSSD) ==
    IF isSSD THEN [disk EXCEPT !.type = IF @ = SSD THEN HDD ELSE SSD] ELSE disk

\* if logicalDevice.isSSD: disks[name].type = DiskTypes.SSD
SetType(disk, isSSD) ==
    IF isSSD THEN [disk EXCEPT !.type = SSD] ELSE disk

RECURSIVE AdaptecLoop(_, _, _)
\* for name, disk in disks.items(): ...; the first KeyError ends the loop
\* with the disks before it changed
AdaptecLoop(ds, names, byName) ==
    IF names = << >> THEN [exc |-> None, disks |-> ds]
    ELSE LET name == Head(names)
             disk == ds[name]
         IN  IF ~StartsWith(disk.model, JBOD) THEN AdaptecLoop(ds, Tail(names), byName)
             ELSE IF disk.model \notin DOMAIN byName THEN [exc |-> "KeyError", disks |-> ds]
             ELSE AdaptecLoop(
                    [ds EXCEPT ![name] = SetType(@, LogicalIsSSD("adaptec", byName[disk.model]))],
                    Tail(names), byName)

AddAdaptecControllerInformation(ds, names, info) ==
    IF info.class /= "AdaptecDevicesInfo" THEN [exc |-> "ValueError", disks |-> ds]
    ELSE IF 0 \notin DOMAIN info.controllers THEN [exc |-> "KeyError", disks |-> ds]
    ELSE AdaptecLoop(ds, names,
                     LogicalDevicesbyNameMap("adaptec", info.controllers[0].logicalDevices))

\* ------------------------------------------------------------------------
\* addLSIControllerInformation

MR == <<"M", "R">>
MR9361 == <<"M", "R", "9", "3", "6", "1">>

\* LSIDevicesInfo.fromString from the first line to the last
LsiFromString(ld, pd) ==
    LET physical == LsiParsePhysicalDevicesString(pd)
        logical == LsiParseLogicalDevicesString(ld)
        resolved == ResolveAll(logical.devices, PhysicalDevicesbyIdMap(physical.devices))
    IN  IF physical.exc /= None THEN [exc |-> physical.exc, controllers |-> EmptyDict]
        ELSE IF logical.exc /= None THEN [exc |-> logical.exc, controllers |-> EmptyDict]
        ELSE IF resolved.exc /= None THEN [exc |-> resolved.exc, controllers |-> EmptyDict]
        ELSE [exc |-> None,
              controllers |-> [c \in {0} |->
                                 [controller |-> 0,
                                  logicalDevices |-> resolved.devices,
                                  physicalDevices |-> physical.devices]]]

\* the storcli dumps the controller information is parsed from: one
\* controller, virtual drive 0 alone or 0 and 1, on the two drives
RcVds ==
    {[v \in {0} |-> [name |-> VdName(0), dids |-> d0]] : d0 \in {<<10>>, <<10, 11>>}}
    \cup {[v \in {0, 1} |-> [name |-> VdName(v), dids |-> IF v = 0 THEN <<10>> ELSE <<11>>]]}

LsiDevicesInfos ==
    {[class |-> "LSIDevicesInfo",
      controllers |->
        LsiFromString(<<ControllerJson("Success", 0, VdsData(0, vds))>>,
                      <<ControllerJson("Success", 0, DrivesData(0, FirstDrives(m0, m1)))>>
                     ).controllers] :
        vds \in RcVds, m0 \in Media, m1 \in Media}

\* what a caller can hand in as blockDeviceMapping: a parsed mapping (both
\* disks, sdx alone, sdx on a target without a virtual drive), or something
\* else ({})
BlockDeviceMappings ==
    {[class |-> "BlockDeviceMapping",
      devices |-> BlockDeviceMappingFromString(tokens).devices] :
        tokens \in {<<PathToken(Hbtl(0, 0, 0, 0)), NameToken(sdx),
                      PathToken(Hbtl(0, 0, 1, 0)), NameToken(sdy)>>,
                    <<PathToken(Hbtl(0, 0, 0, 0)), NameToken(sdx)>>,
                    <<PathToken(Hbtl(0, 0, 5, 0)), NameToken(sdx),
                      PathToken(Hbtl(0, 0, 1, 0)), NameToken(sdy)>>}}
    \cup {[class |-> "dict", devices |-> EmptyDict]}

LsiDiskModels == {MR9361, SEAGATE}

\* (mutant) the target id is stored as the size as well
LsiSetDiskAndSize(disk, logicalDevice, blockDeviceId) ==
    [SetType(disk, LogicalIsSSD("lsi", logicalDevice))
        EXCEPT !.model = Name("lsi", logicalDevice), !.location = blockDeviceId,
               !.size = <<"1">>]

\* disks[name].model = logicalDevice.name; if logicalDevice.isSSD: ...;
\* disks[name].location = blockDeviceId
LsiSetDisk(disk, logicalDevice, blockDeviceId) ==
    [SetType(disk, LogicalIsSSD("lsi", logicalDevice))
        EXCEPT !.model = Name("lsi", logicalDevice), !.location = blockDeviceId]

RECURSIVE LsiLoop(_, _, _, _)
\* for name, disk in disks.items(): ...; the first KeyError ends the loop
\* with the disks before it changed
LsiLoop(ds, names, idByName, lds) ==
    IF names = << >> THEN [exc |-> None, disks |-> ds]
    ELSE LET name == Head(names)
             disk == ds[name]
         IN  IF ~StartsWith(disk.model, MR) THEN LsiLoop(ds, Tail(names), idByName, lds)
             ELSE IF name \notin DOMAIN idByName THEN [exc |-> "KeyError", disks |-> ds]
             ELSE IF idByName[name] \notin DOMAIN lds THEN [exc |-> "KeyError", disks |-> ds]
             ELSE LsiLoop([ds EXCEPT ![name] = LsiSetDisk(@, lds[idByName[name]], idByName[name])],
                          Tail(names), idByName, lds)

\* (mutant) the block device mapping is used as it comes
AddLSIControllerInformationUnchecked(ds, names, info, mapping) ==
    IF info.class /= "LSIDevicesInfo" THEN [exc |-> "ValueError", disks |-> ds]
    ELSE IF 0 \notin DOMAIN info.controllers THEN [exc |-> "KeyError", disks |-> ds]
    ELSE LsiLoop(ds, names, IDbyDeviceNameMap(mapping.devices),
                 info.controllers[0].logicalDevices)

AddLSIControllerInformation(ds, names, info, mapping) ==
    IF info.class /= "LSIDevicesInfo" THEN [exc |-> "ValueError", disks |-> ds]
    ELSE IF mapping.class /= "BlockDeviceMapping" THEN [exc |-> "ValueError", disks |-> ds]
    ELSE IF 0 \notin DOMAIN info.controllers THEN [exc |-> "KeyError", disks |-> ds]
    ELSE LsiLoop(ds, names, IDbyDeviceNameMap(mapping.devices),
                 info.controllers[0].logicalDevices)

\* ------------------------------------------------------------------------
\* the two reconciliation functions, applied by a caller

RcIdle ==
    /\ rcDisks = EmptyDict
    /\ rcOrder = << >>
    /\ devicesInfo = [class |-> "dict", controllers |-> EmptyDict]
    /\ rcCalls = 0
    /\ rcExc = None
    /\ rcFunction = None
    /\ blockDeviceMapping = [class |-> "dict", devices |-> EmptyDict]

RcDisks(models) ==
    {[name \in {sdx, sdy} |->
        IF name = sdx THEN DiskNew(sdx, HDD, m1, <<"0">>, None)
        ELSE DiskNew(sdy, t2, m2, <<"0">>, None)] :
            m1 \in models, m2 \in models, t2 \in {HDD, SSD}}

RcInit ==
    /\ \/ /\ rcFunction = "adaptec"
          /\ rcDisks \in RcDisks(DiskModels)
          /\ devicesInfo \in DevicesInfos
                \cup {[class |-> "LSIDevicesInfo", controllers |-> EmptyDict]}
          /\ blockDeviceMapping = [class |-> "dict", devices |-> EmptyDict]
       \/ /\ rcFunction = "lsi"
          /\ rcDisks \in RcDisks(LsiDiskModels)
          /\ devicesInfo \in LsiDevicesInfos
                \cup {[class |-> "dict", controllers |-> EmptyDict],
                      [class |-> "AdaptecDevicesInfo", controllers |-> EmptyDict]}
          /\ blockDeviceMapping \in BlockDeviceMappings
    /\ rcOrder \in {<<sdx, sdy>>, <<sdy, sdx>>}
    /\ rcCalls = 0
    /\ rcExc = None

addAdaptecControllerInformation ==
    /\ rcFunction = "adaptec"
    /\ rcCalls < MaxCalls
    /\ LET r == AddAdaptecControllerInformation(rcDisks, rcOrder, devicesInfo)
       IN  /\ rcDisks' = r.disks
           /\ rcExc' = r.exc
    /\ rcCalls' = rcCalls + 1
    /\ UNCHANGED <<rcOrder, devicesInfo, rcFunction, blockDeviceMapping>>
    /\ UNCHANGED rcOthers

addLSIControllerInformation ==
    /\ rcFunction = "lsi"
    /\ rcCalls < MaxCalls
    /\ LET r == AddLSIControllerInformation(rcDisks, rcOrder, devicesInfo, blockDeviceMapping)
       IN  /\ rcDisks' = r.disks
           /\ rcExc' = r.exc
    /\ rcCalls' = rcCalls + 1
    /\ UNCHANGED <<rcOrder, devicesInfo, rcFunction, blockDeviceMapping>>
    /\ UNCHANGED rcOthers

\* ------------------------------------------------------------------------
\* retry

\* the exception classes of the calls, with their base classes (Python 2)
Bases(class) ==
    CASE class = "NotImplementedError" ->
            {"NotImplementedError", "RuntimeError", "StandardError", "Exception", "BaseException"}
      [] class = "RuntimeError" ->
            {"RuntimeError", "StandardError", "Exception", "BaseException"}
      [] class = "KeyboardInterrupt" -> {"KeyboardInterrupt", "BaseException"}
      [] class = "TypeError" -> {"TypeError", "StandardError", "Exception", "BaseException"}

RaisedClasses == {"RuntimeError", "NotImplementedError", "KeyboardInterrupt"}

\* an exception instance: its class and the call of the method that raised it
\* (call 0: raised by the wrapper itself)
Exception(class, call) == [class |-> class, call |-> call]
NoException == Exception("None", 0)

\* `if not exceptions: exceptions = (Exception,)`
RetriedExceptions(given) == IF given = {} THEN {"Exception"} ELSE given

\* `except exceptions as exception`
Catches(given, class) == Bases(class) \cap RetriedExceptions(given) /= {}

\* (mutant) one turn too many
InRangeInclusive(i, n) == i <= n

\* `for attempt in range(attempts)`: is there a turn for attempt = i
InRange(i, n) == i < n

RetryIdle ==
    /\ attempts = 0 /\ exceptions = {} /\ attempt = 0
    /\ latestException = NoException /\ methodCalls = << >> /\ slept = 0
    /\ retryPc = "idle" /\ retryExc = NoException

\* the wrapper is entered: `latestException = None`
RetryInit ==
    /\ attempts \in 0..MaxAttempts
    /\ exceptions \in {{}, {"NotImplementedError"}, {"RuntimeError"},
                       {"NotImplementedError", "KeyboardInterrupt"}}
    /\ attempt = 0
    /\ latestException = NoException /\ methodCalls = << >> /\ slept = 0
    /\ retryPc = "loop" /\ retryExc = NoException

\* one turn of `for attempt in range(attempts)`: the method returns, or raises
\* an exception that is caught (warn, remember, sleep) or not
CallMethod ==
    /\ retryPc = "loop"
    /\ InRange(attempt, attempts)
    /\ \E outcome \in {"return"} \cup RaisedClasses :
          /\ methodCalls' = Append(methodCalls, outcome)
          /\ IF outcome = "return"
             THEN /\ retryPc' = "returned"
                  /\ UNCHANGED <<attempt, latestException, slept, retryExc>>
             ELSE IF Catches(exceptions, outcome)
             THEN /\ latestException' = Exception(outcome, Len(methodCalls) + 1)
                  /\ slept' = IF attempt < attempts THEN slept + attempt + 1 ELSE slept
                  /\ attempt' = attempt + 1
                  /\ UNCHANGED <<retryPc, retryExc>>
             ELSE /\ retryPc' = "raised"
                  /\ retryExc' = Exception(outcome, Len(methodCalls) + 1)
                  /\ UNCHANGED <<attempt, latestException, slept>>
    /\ UNCHANGED <<attempts, exceptions>>
    /\ UNCHANGED retryOthers

\* `raise latestException` after the loop; `raise None` is a TypeError
RaiseLatestException ==
    /\ retryPc = "loop"
    /\ ~InRange(attempt, attempts)
    /\ retryPc' = "raised"
    /\ retryExc' = IF latestException = NoException
                   THEN Exception("TypeError", 0)
                   ELSE latestException
    /\ UNCHANGED <<attempts, exceptions, attempt, latestException, methodCalls, slept>>
    /\ UNCHANGED retryOthers

\* ------------------------------------------------------------------------
\* exclusiveWrite

\* the default of `tries`
DefaultTries == 3

Processes == 1..NumProcesses

\* a string is written in pieces: what f.write() hands to the OS at once
\* because it exceeds f's buffer, and the rest, which stays in the buffer
\* until f is flushed; a short string is one piece
Piece(p, part) == [process |-> p, part |-> part]
String(p, length) == [part \in 1..length |-> Piece(p, part)]
Hole == Piece(0, 0)

\* f.write(string) on a buffered file: the pieces written through, the piece kept
WrittenThrough(string) == SubSeq(string, 1, Len(string) - 1)
Buffered(string) == SubSeq(string, Len(string), Len(string))

\* write(2) of pieces at an offset
WriteAt(contents, offset, pieces) ==
    LET length == IF offset + Len(pieces) > Len(contents)
                  THEN offset + Len(pieces) ELSE Len(contents)
    IN  [i \in 1..length |->
            IF i > offset /\ i <= offset + Len(pieces) THEN pieces[i - offset]
            ELSE IF i <= Len(contents) THEN contents[i]
            ELSE Hole]

\* write(2) on the descriptor of f: at the end with O_APPEND (mode 'a'), at
\* the descriptor's own offset otherwise (mode 'w')
WriteFile(contents, isAppend, offset, pieces) ==
    IF isAppend THEN contents \o pieces ELSE WriteAt(contents, offset, pieces)

\* (mutant) `if tries < 0`
CouldNotAcquireNegative(t) == t < 0

\* `if tries < 1`
CouldNotAcquire(t) == t < 1

EwIdle ==
    /\ append = TRUE /\ ewTries = 0
    /\ strings = << >> /\ file = << >> /\ written = << >> /\ lockOwner = 0
    /\ tries = << >> /\ buffer = << >> /\ ewPc = << >>

\* the processes are started on an empty file
EwInit ==
    /\ append \in BOOLEAN
    /\ ewTries \in 0..DefaultTries
    /\ strings \in {[p \in Processes |-> String(p, length[p])] :
                        length \in [Processes -> {1, 2}]}
    /\ file = << >>
    /\ written = << >>
    /\ lockOwner = 0
    /\ tries = [p \in Processes |-> ewTries]
    /\ buffer = [p \in Processes |-> << >>]
    /\ ewPc = [p \in Processes |-> "start"]

\* `with open(fileName, mode) as f`: mode 'w' truncates the file
Open(p) ==
    /\ ewPc[p] = "start"
    /\ file' = IF append THEN file ELSE << >>
    /\ ewPc' = [ewPc EXCEPT ![p] = "loop"]
    /\ UNCHANGED <<append, ewTries, strings, written, lockOwner, tries, buffer>>
    /\ UNCHANGED ewOthers

\* fcntl.lockf(f, LOCK_EX | LOCK_NB) in the loop: the lock is taken, or held
\* by another process (IOError: tries -= 1, sleep)
Lockf(p) ==
    /\ ewPc[p] = "loop"
    /\ tries[p] > 0
    /\ IF lockOwner = 0
       THEN /\ lockOwner' = p
            /\ ewPc' = [ewPc EXCEPT ![p] = "locked"]
            /\ UNCHANGED tries
       ELSE /\ tries' = [tries EXCEPT ![p] = tries[p] - 1]
            /\ UNCHANGED <<lockOwner, ewPc>>
    /\ UNCHANGED <<append, ewTries, strings, file, written, buffer>>
    /\ UNCHANGED ewOthers

\* f.write(string); fcntl.lockf(f, LOCK_UN); break
WriteAndUnlock(p) ==
    /\ ewPc[p] = "locked"
    /\ file' = WriteFile(file, append, 0, WrittenThrough(strings[p]))
    /\ written' = written \o WrittenThrough(strings[p])
    /\ buffer' = [buffer EXCEPT ![p] = Buffered(strings[p])]
    /\ lockOwner' = 0
    /\ ewPc' = [ewPc EXCEPT ![p] = "close"]
    /\ UNCHANGED <<append, ewTries, strings, tries>>
    /\ UNCHANGED ewOthers

\* the loop is left: OSError if `tries < 1`, and f is closed, which flushes it
Close(p) ==
    /\ \/ ewPc[p] = "close"
       \/ ewPc[p] = "loop" /\ ~(tries[p] > 0)
    /\ file' = IF buffer[p] = << >> THEN file
               ELSE WriteFile(file, append, Len(strings[p]) - Len(buffer[p]), buffer[p])
    /\ written' = written \o buffer[p]
    /\ buffer' = [buffer EXCEPT ![p] = << >>]
    /\ ewPc' = [ewPc EXCEPT ![p] = IF CouldNotAcquire(tries[p]) THEN "raised" ELSE "returned"]
    /\ UNCHANGED <<append, ewTries, strings, lockOwner, tries>>
    /\ UNCHANGED ewOthers

\* ------------------------------------------------------------------------
\* getAvailableDisks

\* a line of `lsblk -P` is a sequence of KEY="value" tokens, here <<KEY, value>>;
\* the dict comprehension keeps the last value of a repeated key
ParseLine(line) ==
    [k \in {line[i][1] : i \in 1..Len(line)} |->
        line[CHOOSE i \in 1..Len(line) :
                /\ line[i][1] = k
                /\ \A j \in 1..Len(line) : line[j][1] = k => j <= i][2]]

\* dict keys: the parsed row is keyed by str; an int key equals none of them
StrKey(s) == [kind |-> "str", s |-> s, n |-> 0]
IntKey(n) == [kind |-> "int", s |-> "", n |-> n]
DictHasKey(d, key) == key.kind = "str" /\ key.s \in DOMAIN d
GetItem(d, key) == d[key.s]

\* (mutant) the size compared as a string, without int()
AboveSizeThresholdAsStr(size) == LexGreater(size, S10MB)

\* the size test of a disk row: int(size) > 10000000
AboveSizeThreshold(size) == IntGreater(size, S10MB)

IsVirtualName(name) == StartsWith(name, xvd) \/ StartsWith(name, vd)

OSMountpoints == {"/", "/boot", "[SWAP]"}

\* (mutant) the swap partition forgotten
IsOSMountpointNoSwap(mountpoint) == mountpoint \in {"/", "/boot"}

IsOSMountpoint(mountpoint) == mountpoint \in OSMountpoints

\* re.match(r'([a-z]+)', name).group(1): the leading lower-case letters
RECURSIVE LeadingLower(_)
LeadingLower(name) ==
    IF name /= << >> /\ name[1] \in LowerChars
    THEN <<name[1]>> \o LeadingLower(Tail(name))
    ELSE << >>


\* the rows an lsblk dump is made of
Row(name, deviceType, size, rota, mountpoint, model) ==
    << <<"NAME", name>>, <<"TYPE", deviceType>>, <<"SIZE", size>>, <<"ROTA", rota>>,
       <<"MOUNTPOINT", mountpoint>>, <<"FSTYPE", "">>, <<"MODEL", model>> >>

BlankLine == << >>

IsRowOfType(line, deviceType) ==
    LET diskInfo == ParseLine(line)
    IN  "TYPE" \in DOMAIN diskInfo /\ diskInfo["TYPE"] = deviceType

Mountpoints == {"", "/", "/boot", "[SWAP]", "/data"}

DiskRowIndexes(lines) == {i \in 1..Len(lines) : IsRowOfType(lines[i], "disk")}
UsedDiskNames(lines) == {ParseLine(lines[i])["NAME"] : i \in DiskRowIndexes(lines)}

\* the disk row a row belongs to: the nearest disk row above it (0: none)
Owner(lines, i) ==
    LET above == {j \in DiskRowIndexes(lines) : j < i}
    IN  IF above = {} THEN 0 ELSE CHOOSE j \in above : \A k \in above : k <= j

PartRowsSince(lines, d) == {i \in (d + 1)..Len(lines) : IsRowOfType(lines[i], "part")}

\* the disk rows of the dumps: virtual and physical disks below, at and above
\* the size threshold, rotational or not
AllDiskRows ==
    { Row(vda, "disk", S500MB, "1", "", EmptyStr),
      Row(xvdb, "disk", S5MB, "1", "", EmptyStr),
      Row(xvdb, "disk", S500MB, "1", "", EmptyStr),
      Row(sdx, "disk", S10MB, "1", "", SEAGATE),
      Row(sdx, "disk", S500MB, "1", "", SEAGATE),
      Row(sdx, "disk", S500MB, "0", "", INTEL),
      Row(sdy, "disk", S20GB, "1", "", SEAGATE),
      Row(sdy, "disk", S20GB, "0", "", INTEL) }

\* lsblk lists each disk once, and a disk's partitions right below it,
\* named after the disk
DiskRows(lines) ==
    {r \in AllDiskRows : ParseLine(r)["NAME"] \notin UsedDiskNames(lines)}

PartRows(lines) ==
    LET d == Owner(lines, Len(lines) + 1)
    IN  IF d = 0 THEN {}
        ELSE LET digit == IF PartRowsSince(lines, d) = {} THEN "1" ELSE "2"
                 name == ParseLine(lines[d])["NAME"] \o <<digit>>
             IN  {Row(name, "part", S5MB, "1", m, EmptyStr) : m \in Mountpoints}

OtherRows == {Row(<<"s", "r", "0">>, "rom", S500MB, "1", "", EmptyStr), BlankLine}

\* rows lsblk should not write: one cut off after NAME, and a disk whose
\* SIZE is no number (lsblk without --bytes)
MalformedRows ==
    { << <<"NAME", <<"s", "d", "z">> >> >>,
      Row(<<"s", "d", "z">>, "disk", <<"1", "G">>, "1", "", SEAGATE) }

NextLines(lines) == DiskRows(lines) \cup PartRows(lines) \cup OtherRows \cup MalformedRows

\* the body of `if deviceType == "disk"`: the new (disks, currentDevice), or the
\* exception that leaves the function
DiskBranch(ds, cur, name, size, diskInfo) ==
    IF ~IsNumeral(size)
    THEN [exc |-> "ValueError", disks |-> ds, currentDevice |-> cur]
    ELSE IF ~AboveSizeThreshold(size)
    THEN [exc |-> None, disks |-> ds, currentDevice |-> cur]
    ELSE IF IsVirtualName(name)
    THEN [exc |-> None, currentDevice |-> name,
          disks |-> DictSet(ds, name, DiskNew(name, HDD, virtual, size, None))]
    ELSE IF ~DictHasKey(diskInfo, IntKey(3))
    THEN [exc |-> "KeyError", disks |-> ds, currentDevice |-> cur]
    ELSE IF ~IsNumeral(GetItem(diskInfo, IntKey(3)))
    THEN [exc |-> "ValueError", disks |-> ds, currentDevice |-> cur]
    ELSE IF ~DictHasKey(diskInfo, IntKey(4))
    THEN [exc |-> "KeyError", disks |-> ds, currentDevice |-> cur]
    ELSE LET rotational == GetItem(diskInfo, IntKey(3))
             model == GetItem(diskInfo, IntKey(4))
             diskType == IF StripZeros(rotational) = <<"0">> THEN SSD ELSE HDD
         IN  [exc |-> None, currentDevice |-> name,
              disks |-> DictSet(ds, name, DiskNew(name, diskType, model, size, None))]

\* `if includePartitions:` of a part row
PartitionsBranch(ds, name, size) ==
    LET deviceName == LeadingLower(name)
    IN  IF deviceName = << >>
        THEN [exc |-> "NameError", disks |-> ds]     \* `except Exceptions` is undefined
        ELSE IF deviceName \in DOMAIN ds /\ name \notin DOMAIN ds[deviceName].partitions
        THEN [exc |-> None,
              disks |-> [ds EXCEPT ![deviceName].partitions = DictSet(@, name, size)]]
        ELSE [exc |-> None, disks |-> ds]

\* `if currentDevice is not None:` of a part row
MountpointBranch(ds, cur, diskInfo, ignoreOS) ==
    IF cur /= None /\ "MOUNTPOINT" \in DOMAIN diskInfo /\ diskInfo["MOUNTPOINT"] /= ""
       /\ IsOSMountpoint(diskInfo["MOUNTPOINT"]) /\ ignoreOS
    THEN [disks |-> DictDel(ds, cur), currentDevice |-> None]
    ELSE [disks |-> ds, currentDevice |-> cur]

\* one iteration of `for line in lines`
LoopBody(ds, cur, line, ignoreOS, includeParts) ==
    LET diskInfo == ParseLine(line)
    IN  IF ~({"NAME", "TYPE", "SIZE"} \subseteq DOMAIN diskInfo)
        THEN [exc |-> None, disks |-> ds, currentDevice |-> cur]   \* warn, continue
        ELSE LET name == diskInfo["NAME"]
                 deviceType == diskInfo["TYPE"]
                 size == diskInfo["SIZE"]
             IN  IF deviceType = "disk"
                 THEN DiskBranch(ds, cur, name, size, diskInfo)
                 ELSE IF deviceType = "part"
                 THEN LET p == IF includeParts THEN PartitionsBranch(ds, name, size)
                                               ELSE [exc |-> None, disks |-> ds]
                          m == MountpointBranch(p.disks, cur, diskInfo, ignoreOS)
                      IN  IF p.exc /= None
                          THEN [exc |-> p.exc, disks |-> p.disks, currentDevice |-> cur]
                          ELSE [exc |-> None, disks |-> m.disks,
                                currentDevice |-> m.currentDevice]
                 ELSE [exc |-> None, disks |-> ds, currentDevice |-> cur]

GadInit ==
    /\ lsblkOutput = << >>
    /\ ignoreOSDisks \in BOOLEAN
    /\ includePartitions \in BOOLEAN
    /\ disks = EmptyDict
    /\ currentDevice = None
    /\ gadPc = "loop"
    /\ gadExc = None

\* the loop takes the next line of the dump
ProcessLine ==
    /\ gadPc = "loop"
    /\ Len(lsblkOutput) < MaxRows
    /\ \E line \in NextLines(lsblkOutput) :
         LET r == LoopBody(disks, currentDevice, line, ignoreOSDisks, includePartitions)
         IN  /\ lsblkOutput' = Append(lsblkOutput, line)
             /\ disks' = r.disks
             /\ currentDevice' = r.currentDevice
             /\ gadExc' = r.exc
             /\ gadPc' = IF r.exc = None THEN "loop" ELSE "raised"
    /\ UNCHANGED <<ignoreOSDisks, includePartitions>>
    /\ UNCHANGED gadOthers

\* the dump is exhausted: `return disks`
ReturnDisks ==
    /\ gadPc = "loop"
    /\ gadPc' = "returned"
    /\ UNCHANGED <<lsblkOutput, ignoreOSDisks, includePartitions, disks, currentDevice, gadExc>>
    /\ UNCHANGED gadOthers

GadIdle ==
    /\ lsblkOutput = << >>
    /\ ignoreOSDisks = TRUE
    /\ includePartitions = FALSE
    /\ disks = EmptyDict
    /\ currentDevice = None
    /\ gadPc = "idle"
    /\ gadExc = None

\* ------------------------------------------------------------------------
\* getAvailableDevices

RECURSIVE GetAvailableDisksLoop(_, _, _, _, _)
\* `for line in lines` of getAvailableDisks, run to its end
GetAvailableDisksLoop(ds, cur, lines, ignoreOS, includeParts) ==
    IF lines = << >> THEN [exc |-> None, disks |-> ds]
    ELSE LET r == LoopBody(ds, cur, Head(lines), ignoreOS, includeParts)
         IN  IF r.exc /= None THEN [exc |-> r.exc, disks |-> EmptyDict]
             ELSE GetAvailableDisksLoop(r.disks, r.currentDevice, Tail(lines),
                                        ignoreOS, includeParts)

\* getAvailableDisks(response, ignoreOSDisks=..., includePartitions=...)
GetAvailableDisks(lines, ignoreOS, includeParts) ==
    GetAvailableDisksLoop(EmptyDict, None, lines, ignoreOS, includeParts)

\* getOSDisks(response): `name, type = deviceInfo[:2]` needs two words on
\* every line; in the KEY="value" dump no word is "part", so nothing is found
GetOSDisks(lines) ==
    IF \E i \in 1..Len(lines) : Len(lines[i]) < 2
    THEN [exc |-> "ValueError", osDisks |-> << >>]
    ELSE [exc |-> None, osDisks |-> << >>]

\* c4.utils.command.execute over ssh: the output, or CommandException
Execute(reachable, output) ==
    IF reachable THEN [exc |-> None, out |-> output]
    ELSE [exc |-> "CommandException", out |-> << >>]

\* how the controller tools of a node answer: not at all, with a dump that
\* names no usable controller, or with a dump of one controller (virtual
\* drive 0 / JBOD1 on the first drive; the bus mapping lists sdx alone)
ControllerEnvironments == {"unreachable", "failing", "answering"}

StorcliLd(env) ==
    Execute(env /= "unreachable",
            <<ControllerJson(IF env = "failing" THEN "Failure" ELSE "Success", 0,
                             VdsData(0, [v \in {0} |-> [name |-> VdName(0), dids |-> <<10>>]]))>>)

StorcliPd(env) ==
    Execute(env /= "unreachable",
            <<ControllerJson("Success", 0, DrivesData(0, FirstDrives("SSD", "HDD")))>>)

MappingOutput(env) ==
    Execute(env /= "unreachable", <<PathToken(Hbtl(0, 0, 0, 0)), NameToken(sdx)>>)

ArcconfLd(env) ==
    Execute(env /= "unreachable",
            IF env = "failing" THEN <<IgnoredLine>>
            ELSE <<HeaderLine(1), IgnoredLine>> \o LdBlock(0, JBOD1, <<SN1>>))

ArcconfPd(env) ==
    Execute(env /= "unreachable",
            <<HeaderLine(1), IgnoredLine>> \o PdBlock(0, SN1, Yes) \o PdBlock(1, SN2, No))

\* the try block of the MegaRAID branch; exc is what `except Exception` logs
LsiBranch(ds, names, env) ==
    LET ld == StorcliLd(env)
        pd == StorcliPd(env)
        info == LsiFromString(ld.out, pd.out)
        string == MappingOutput(env)
        mapping == BlockDeviceMappingFromString(string.out)
    IN  IF ld.exc /= None THEN [exc |-> ld.exc, disks |-> ds]
        ELSE IF pd.exc /= None THEN [exc |-> pd.exc, disks |-> ds]
        ELSE IF info.exc /= None THEN [exc |-> info.exc, disks |-> ds]
        ELSE IF string.exc /= None THEN [exc |-> string.exc, disks |-> ds]
        ELSE IF mapping.exc /= None THEN [exc |-> mapping.exc, disks |-> ds]
        ELSE AddLSIControllerInformation(
                ds, names,
                [class |-> "LSIDevicesInfo", controllers |-> info.controllers],
                [class |-> "BlockDeviceMapping", devices |-> mapping.devices])

\* the try block of the Adaptec branch
AdaptecBranch(ds, names, env) ==
    LET ld == ArcconfLd(env)
        pd == ArcconfPd(env)
        info == AdaptecFromString(ld.out, pd.out)
    IN  IF ld.exc /= None THEN [exc |-> ld.exc, disks |-> ds]
        ELSE IF pd.exc /= None THEN [exc |-> pd.exc, disks |-> ds]
        ELSE IF info.exc /= None THEN [exc |-> info.exc, disks |-> ds]
        ELSE AddAdaptecControllerInformation(
                ds, names,
                [class |-> "AdaptecDevicesInfo", controllers |-> info.controllers])

\* `if any(MR...) ... elif any(JBOD...) ...` on node.disks
Augment(ds, names, env) ==
    IF \E name \in DOMAIN ds : StartsWith(ds[name].model, MR)
    THEN LsiBranch(ds, names, env)
    ELSE IF \E name \in DOMAIN ds : StartsWith(ds[name].model, JBOD)
    THEN AdaptecBranch(ds, names, env)
    ELSE [exc |-> None, disks |-> ds]

\* the orders in which a dict can hand out its keys
Orders(keys) ==
    {s \in [1..Cardinality(keys) -> keys] :
        \A i, j \in 1..Cardinality(keys) : i /= j => s[i] /= s[j]}

\* what lsblk answers on a node: virtual disks (one with a partition, mounted
\* as / or as /data), disks behind a controller (above and below the size
\* threshold), a dump with an empty line, or nothing because ssh failed
Responses ==
    {Execute(TRUE, rows) :
        rows \in {<<Row(vda, "disk", S500MB, "1", "", EmptyStr)>>,
                  <<Row(vda, "disk", S500MB, "1", "", EmptyStr),
                    Row(vda \o <<"1">>, "part", S5MB, "1", "/", EmptyStr)>>,
                  <<Row(vda, "disk", S500MB, "1", "", EmptyStr),
                    Row(vda \o <<"1">>, "part", S5MB, "1", "/data", EmptyStr)>>,
                  <<Row(vda, "disk", S500MB, "1", "", EmptyStr), BlankLine>>,
                  <<Row(sdx, "disk", S500MB, "1", "", MR9361)>>,
                  <<Row(sdx, "disk", S5MB, "1", "", MR9361)>>,
                  <<Row(sdx, "disk", S500MB, "0", "", JBOD1),
                    Row(sdy, "disk", S20GB, "1", "", SEAGATE)>>}}
    \cup {Execute(FALSE, << >>)}

GavIdle ==
    /\ gavNodes = << >>
    /\ gavIgnoreOSDisks = TRUE
    /\ gavIncludePartitions = FALSE
    /\ lsblkOf = EmptyDict
    /\ controllerOf = EmptyDict
    /\ gavIndex = 0
    /\ deviceMap = EmptyDict
    /\ gavLogged = EmptyDict
    /\ gavPc = "idle"
    /\ gavExc = None

GavInit ==
    /\ \E k \in 1..MaxNodes :
         /\ gavNodes = [i \in 1..k |-> i]
         /\ lsblkOf \in [1..k -> Responses]
         /\ controllerOf \in [1..k -> ControllerEnvironments]
    /\ gavIgnoreOSDisks \in BOOLEAN
    /\ gavIncludePartitions \in BOOLEAN
    /\ gavIndex = 0
    /\ deviceMap = EmptyDict
    /\ gavLogged = EmptyDict
    /\ gavPc = "loop"
    /\ gavExc = None

\* one iteration of `for nodeName in nodes`
DiscoverNode ==
    /\ gavPc = "loop"
    /\ gavIndex < Len(gavNodes)
    /\ LET nodeName == gavNodes[gavIndex + 1]
           response == lsblkOf[nodeName]
           got == GetAvailableDisks(response.out, gavIgnoreOSDisks, gavIncludePartitions)
           os == GetOSDisks(response.out)
           exc == IF response.exc /= None THEN response.exc
                  ELSE IF got.exc /= None THEN got.exc
                  ELSE os.exc
       IN  IF exc /= None
           THEN /\ gavPc' = "raised"
                /\ gavExc' = exc
                /\ UNCHANGED <<deviceMap, gavLogged>>
           ELSE \E names \in Orders(DOMAIN got.disks) :
                  LET r == Augment(got.disks, names, controllerOf[nodeName])
                  IN  /\ deviceMap' = DictSet(deviceMap, nodeName, r.disks)
                      /\ gavLogged' = DictSet(gavLogged, nodeName, r.exc)
                      /\ UNCHANGED <<gavPc, gavExc>>
    /\ gavIndex' = gavIndex + 1
    /\ UNCHANGED <<gavNodes, gavIgnoreOSDisks, gavIncludePartitions, lsblkOf, controllerOf>>
    /\ UNCHANGED gavOthers

\* the nodes are exhausted: `return devices`
ReturnDevices ==
    /\ gavPc = "loop"
    /\ gavIndex = Len(gavNodes)
    /\ gavPc' = "returned"
    /\ UNCHANGED <<gavNodes, gavIgnoreOSDisks, gavIncludePartitions, lsblkOf, controllerOf,
                   gavIndex, deviceMap, gavLogged, gavExc>>
    /\ UNCHANGED gavOthers

\* ------------------------------------------------------------------------
\* getDiskPartitions

\* the defaults of the signature: i=1, maxi=3, checkType=True
DefaultI == 1
DefaultMaxi == 3

\* what `parted -sm <device> unit <unit> print` comes back with when run
\* with raiseOnExitStatus=False: exit status 0 and the table, a non-zero exit
\* status with 'unrecognised disk label', or a non-zero exit status with
\* another error (the executor as getDiskPartitions uses it: a result with
\* rc and error)
PartedResults ==
    {[rc |-> 0, error |-> "", partitions |-> n] : n \in 0..MaxPartitions}
    \cup {[rc |-> 1, error |-> "unrecognised disk label", partitions |-> 0],
          [rc |-> 1, error |-> "Could not stat device", partitions |-> 0]}

\* the rows after 'BYT;' that match ^\d+:.*;$ become the partitions; each gets
\* a 'Type' when checkType is set
ParsePartitions(result, checkType) ==
    [value |-> "list",
     partitions |-> [number \in 1..result.partitions |->
                        [number |-> number, typed |-> checkType]]]

\* `return None`, and the result of a call that has not returned
NoPartitions == [value |-> None, partitions |-> << >>]

GdpIdle ==
    /\ gdpDevice = "block"
    /\ gdpNewSystem = TRUE
    /\ callerMaxi = DefaultMaxi
    /\ callerCheckType = TRUE
    /\ gdpI = DefaultI
    /\ gdpMaxi = DefaultMaxi
    /\ gdpCheckType = TRUE
    /\ reads = 0
    /\ created = 0
    /\ gdpResult = NoPartitions
    /\ gdpPc = "idle"
    /\ gdpExc = None

\* a caller's call: any maxi, i left at its default
GdpInit ==
    /\ gdpDevice \in {"block", "volgroup", "other"}
    /\ gdpNewSystem \in BOOLEAN
    /\ callerMaxi \in 0..MaxMaxi
    /\ callerCheckType \in BOOLEAN
    /\ gdpI = DefaultI
    /\ gdpMaxi = callerMaxi
    /\ gdpCheckType = callerCheckType
    /\ reads = 0
    /\ created = 0
    /\ gdpResult = NoPartitions
    /\ gdpPc = "call"
    /\ gdpExc = None

\* if i > maxi: raise DiskFailureException
AttemptsExhausted(i, maxi) == i > maxi

\* one frame of getDiskPartitions, up to its return, its raise or its
\* recursive call getDiskPartitions(device, getFreeSpace, logErrors, i+1,
\* newSystem=newSystem), which leaves maxi, unit and checkType at their defaults
getDiskPartitions ==
    /\ gdpPc = "call"
    /\ IF AttemptsExhausted(gdpI, gdpMaxi)
       THEN /\ gdpPc' = "raised"
            /\ gdpExc' = "DiskFailureException"
            /\ UNCHANGED <<gdpI, gdpMaxi, gdpCheckType, reads, created, gdpResult>>
       ELSE IF gdpDevice = "other"
       THEN /\ gdpPc' = "raised"
            /\ gdpExc' = "ValueError"
            /\ UNCHANGED <<gdpI, gdpMaxi, gdpCheckType, reads, created, gdpResult>>
       ELSE \E output \in PartedResults :
              /\ reads' = reads + 1
              /\ IF output.rc /= 0 /\ output.error = "unrecognised disk label"
                 THEN /\ created' = IF gdpNewSystem THEN created + 1 ELSE created
                      /\ gdpI' = gdpI + 1
                      /\ gdpMaxi' = DefaultMaxi
                      /\ gdpCheckType' = TRUE
                      /\ UNCHANGED <<gdpResult, gdpPc, gdpExc>>
                 ELSE /\ gdpResult' = IF output.rc /= 0 THEN NoPartitions
                                      ELSE ParsePartitions(output, gdpCheckType)
                      /\ gdpPc' = "returned"
                      /\ UNCHANGED <<gdpI, gdpMaxi, gdpCheckType, created, gdpExc>>
    /\ UNCHANGED <<gdpDevice, gdpNewSystem, callerMaxi, callerCheckType>>
    /\ UNCHANGED gdpOthers

\* ------------------------------------------------------------------------
\* Timer

Sleep(seconds) == [kind |-> "sleep", seconds |-> seconds]
Call == [kind |-> "call", seconds |-> 0]

\* the calls of the timer function so far
Calls(events) == Cardinality({i \in 1..Len(events) : events[i].kind = "call"})

\* what a call of the timer function can do
FunctionOutcomes == {"returns", "Exception", "KeyboardInterrupt"}

TimerIdle ==
    /\ initial = 0
    /\ interval = 0
    /\ repeatGiven = 0
    /\ repeat = 0
    /\ timerEvents = << >>
    /\ timerPc = "idle"
    /\ timerLog = None

\* Timer(name, function, initial, repeat, interval) and start()
TimerInit ==
    /\ initial \in {0, 5}
    /\ interval \in {0, 10}
    /\ repeatGiven \in -1..MaxRepeat
    /\ repeat = repeatGiven
    /\ timerEvents = << >>
    /\ timerPc = "start"
    /\ timerLog = None

\* time.sleep(self.initial); if self.repeat < 0: ... else: ...
SleepInitial ==
    /\ timerPc = "start"
    /\ timerEvents' = Append(timerEvents, Sleep(initial))
    /\ timerPc' = IF repeat < 0 THEN "forever" ELSE "while"
    /\ UNCHANGED <<initial, interval, repeatGiven, repeat, timerLog>>
    /\ UNCHANGED timerOthers

\* while self.repeat >= 0
LoopCondition(r) == r >= 0

\* self.function(), in `while True` or in `while self.repeat >= 0`; what it
\* raises is caught by run, logged, and ends the timer
CallFunction ==
    /\ \/ timerPc = "forever"
       \/ timerPc = "while" /\ LoopCondition(repeat)
    /\ Calls(timerEvents) < MaxTimerCalls
    /\ timerEvents' = Append(timerEvents, Call)
    /\ \E outcome \in FunctionOutcomes :
         IF outcome = "returns"
         THEN timerPc' = "sleep" /\ UNCHANGED timerLog
         ELSE timerPc' = "exited" /\ timerLog' = outcome
    /\ UNCHANGED <<initial, interval, repeatGiven, repeat>>
    /\ UNCHANGED timerOthers

\* time.sleep(self.interval), and self.repeat -= 1 in the counted loop
SleepInterval ==
    /\ timerPc = "sleep"
    /\ timerEvents' = Append(timerEvents, Sleep(interval))
    /\ IF repeatGiven < 0
       THEN timerPc' = "forever" /\ UNCHANGED repeat
       ELSE timerPc' = "while" /\ repeat' = repeat - 1
    /\ UNCHANGED <<initial, interval, repeatGiven, timerLog>>
    /\ UNCHANGED timerOthers

\* the counted loop is over: run returns and the process ends
TimerExit ==
    /\ timerPc = "while"
    /\ ~LoopCondition(repeat)
    /\ timerPc' = "exited"
    /\ UNCHANGED <<initial, interval, repeatGiven, repeat, timerEvents, timerLog>>
    /\ UNCHANGED timerOthers

\* ------------------------------------------------------------------------
\* getAvailableDisks: specification

GadNext == ProcessLine \/ ReturnDisks

InitDisks == GadInit /\ DiskIdle /\ PdIdle /\ ScsiIdle /\ RcIdle /\ BdmIdle /\ RetryIdle /\ EwIdle /\ GavIdle /\ GdpIdle /\ TimerIdle

SpecDisks == InitDisks /\ [][GadNext]_vars

\* ------------------------------------------------------------------------
\* properties of getAvailableDisks

RowName(lines, i) == ParseLine(lines[i])["NAME"]
RowSize(lines, i) == ParseLine(lines[i])["SIZE"]
RowMountpoint(lines, i) == ParseLine(lines[i])["MOUNTPOINT"]
PartRowIndexes(lines) == {i \in 1..Len(lines) : IsRowOfType(lines[i], "part")}
OSPartRowIndexes(lines) ==
    {i \in PartRowIndexes(lines) : RowMountpoint(lines, i) \in {"/", "/boot", "[SWAP]"}}
QualifyingDiskRowIndexes(lines) ==
    {i \in DiskRowIndexes(lines) :
        IsNumeral(RowSize(lines, i)) /\ IntGreater(RowSize(lines, i), S10MB)}

C2_SmallDisksExcluded ==
    \A i \in DiskRowIndexes(lsblkOutput) :
        IntGreater(S10MB, RowSize(lsblkOutput, i)) =>
            RowName(lsblkOutput, i) \notin DOMAIN disks

\* a returned, non-empty mapping for a dump with a small disk between two others
C2_Witness ==
    /\ gadPc = "returned"
    /\ DOMAIN disks /= {}
    /\ \E i \in DiskRowIndexes(lsblkOutput) :
          /\ IntGreater(S10MB, RowSize(lsblkOutput, i))
          /\ \E a, b \in DiskRowIndexes(lsblkOutput) : a < i /\ i < b

\* C3: every disk row above the size threshold is classified when it is
\* processed: prefix xvd or vd gives HDD and model "virtual"; otherwise ROTA = 0
\* gives SSD, any other ROTA gives HDD, and the model is the MODEL field.
C3_Classification ==
    LET n == Len(lsblkOutput)
    IN  n \in QualifyingDiskRowIndexes(lsblkOutput) =>
            LET diskInfo == ParseLine(lsblkOutput[n])
                name == diskInfo["NAME"]
            IN  /\ gadPc /= "raised"
                /\ name \in DOMAIN disks
                /\ IF StartsWith(name, xvd) \/ StartsWith(name, vd)
                   THEN disks[name].type = HDD /\ disks[name].model = virtual
                   ELSE /\ disks[name].type = IF diskInfo["ROTA"] = "0" THEN SSD ELSE HDD
                        /\ disks[name].model = diskInfo["MODEL"]

\* C4: on the dump <<sdx 500MB disk, sdy 20GB rota=1 model SEAGATE>> the call
\* does not raise and returns exactly {sdy: HDD, SEAGATE}.
C4_Scenario ==
    LET n == Len(lsblkOutput)
        first == ParseLine(lsblkOutput[1])
        inScenario ==
            /\ ignoreOSDisks /\ ~includePartitions     \* the default call
            /\ n \in 1..2
            /\ IsRowOfType(lsblkOutput[1], "disk")
            /\ first["NAME"] = sdx /\ first["SIZE"] = S500MB
            /\ n = 2 => lsblkOutput[2] = Row(sdy, "disk", S20GB, "1", "", SEAGATE)
    IN  inScenario =>
            /\ gadPc /= "raised"
            /\ (n = 2 /\ gadPc = "returned") =>
                  /\ DOMAIN disks = {sdy}
                  /\ disks[sdy].type = HDD
                  /\ disks[sdy].model = SEAGATE

\* ------------------------------------------------------------------------
\* Disk: specification and properties

DiskNext == addPartition \/ setPartition \/ hasSpaceLeft

InitDisk == DiskInit /\ GadIdle /\ PdIdle /\ ScsiIdle /\ RcIdle /\ BdmIdle /\ RetryIdle /\ EwIdle /\ GavIdle /\ GdpIdle /\ TimerIdle

SpecDisk == InitDisk /\ [][DiskNext]_vars

\* the sum of the percentages, index by index
RECURSIVE PercentUpTo(_, _)
PercentUpTo(parts, n) ==
    IF n = 0 THEN 0
    ELSE PercentUpTo(parts, n - 1) + (IF n \in DOMAIN parts THEN parts[n].percent ELSE 0)

\* C5: hasSpaceLeft returns true for a disk without partitions, false when the
\* percentages of its partitions sum to 100 or more, and true when they sum to
\* less, after any sequence of addPartition and setPartition calls.
C5_HasSpaceLeft ==
    spaceLeft /= None =>
        /\ DOMAIN partitions = {} => spaceLeft = "True"
        /\ PercentUpTo(partitions, MaxPartitions) >= 100 => spaceLeft = "False"
        /\ PercentUpTo(partitions, MaxPartitions) < 100 => spaceLeft = "True"

\* hasSpaceLeft said no for partitions that fill the disk only together
C5_Witness ==
    /\ spaceLeft = "False"
    /\ Cardinality(DOMAIN partitions) >= 2
    /\ \A i \in DOMAIN partitions : partitions[i].percent < 100

\* ------------------------------------------------------------------------
\* partitionDevices: specification and properties

InitPartition == PdInit /\ GadIdle /\ DiskIdle /\ ScsiIdle /\ RcIdle /\ BdmIdle /\ RetryIdle /\ EwIdle /\ GavIdle /\ GdpIdle /\ TimerIdle

SpecPartition == InitPartition /\ [][PdNext]_vars

\* the percentages of a plan's partitions with an index below n
RECURSIVE PercentBelow(_, _)
PercentBelow(plan, n) ==
    IF n <= 1 THEN 0
    ELSE PercentBelow(plan, n - 1)
         + (IF (n - 1) \in DOMAIN plan THEN plan[n - 1] ELSE 0)

MkpartCommands(node, disk) ==
    SelectSeq(commands, LAMBDA c : c.cmd = "mkpart" /\ c.node = node /\ c.disk = disk)

\* C6: every mkpart of a disk starts at the sum of the percentages of the
\* disk's partitions with a smaller index and ends at that start plus its own
\* percentage, and the mkparts of a disk come in ascending index order.
C6_PartitionRanges ==
    /\ \A i \in 1..Len(commands) :
          LET c == commands[i]
              plan == devices[c.node][c.disk]
          IN  c.cmd = "mkpart" =>
                /\ c.start = PercentBelow(plan, c.index)
                /\ c.end = c.start + plan[c.index]
    /\ \A n \in DOMAIN devices : \A d \in DOMAIN devices[n] :
          LET mk == MkpartCommands(n, d)
          IN  \A i \in 1..(Len(mk) - 1) : mk[i].index < mk[i + 1].index

\* the plan [30, 30, 40] was carried out as (0,30), (30,60), (60,100)
C6_Witness ==
    /\ pdPc = "returned"
    /\ devices[1][1] = <<30, 30, 40>>
    /\ LET mk == MkpartCommands(1, 1)
       IN  /\ Len(mk) = 3
           /\ <<mk[1].start, mk[1].end>> = <<0, 30>>
           /\ <<mk[2].start, mk[2].end>> = <<30, 60>>
           /\ <<mk[3].start, mk[3].end>> = <<60, 100>>

\* ------------------------------------------------------------------------
\* controller parsers: specification and properties

InitScsi == (AdaptecInit \/ LsiInit) /\ GadIdle /\ DiskIdle /\ PdIdle /\ RcIdle /\ BdmIdle /\ RetryIdle /\ EwIdle /\ GavIdle /\ GdpIdle /\ TimerIdle

ScsiNext ==
    \/ AdaptecCountControllers
    \/ AdaptecParsePhysical
    \/ AdaptecParseLogical
    \/ AdaptecResolve
    \/ LsiParsePhysical
    \/ LsiParseLogical
    \/ LsiResolve
    \/ IsSSD

SpecScsi == InitScsi /\ [][ScsiNext]_vars

\* the dump as the tool wrote it: where its logical devices start, what each
\* one lists, and the hard drives of the pd dump
LdIndexes(lines) == {i \in 1..Len(lines) : lines[i].kind = "ldnum"}

InBlock(lines, startKind, i, j) ==
    i < j /\ \A m \in (i + 1)..j : lines[m].kind /= startKind

DumpSegments(lines, i) ==
    {j \in 1..Len(lines) : InBlock(lines, "ldnum", i, j) /\ lines[j].kind = "segment"}

DumpNames(lines) ==
    {lines[j].value : j \in {j \in 1..Len(lines) :
        /\ lines[j].kind = "attr" /\ lines[j].key = "Logical device name"
        /\ \E i \in LdIndexes(lines) : InBlock(lines, "ldnum", i, j)}}

HardDriveSerials(lines) ==
    {lines[j].value : j \in {j \in 1..Len(lines) :
        /\ lines[j].kind = "attr" /\ lines[j].key = "Serial number"
        /\ \E i \in 1..Len(lines) :
              /\ lines[i].kind = "devnum"
              /\ InBlock(lines, "devnum", i, j)
              /\ \E d \in 1..Len(lines) :
                    /\ InBlock(lines, "devnum", i, d)
                    /\ lines[d].kind = "deviceis"
                    /\ lines[d].key = "Device is a Hard drive"}}

\* a valid dump: at least one controller, logical devices numbered apart, each
\* with at least one segment, every segment on a hard drive of the pd dump
ValidAdaptecDump(ld, pd) ==
    /\ ControllersFound(ld) >= 1
    /\ \A i, j \in LdIndexes(ld) : ld[i].num = ld[j].num => i = j
    /\ \A i \in LdIndexes(ld) :
          /\ DumpSegments(ld, i) /= {}
          /\ \A j \in DumpSegments(ld, i) : ld[j].value \in HardDriveSerials(pd)

AllConcrete(lds) ==
    \A n \in DOMAIN lds :
        /\ DOMAIN lds[n].physicalDevices /= {}
        /\ \A k \in DOMAIN lds[n].physicalDevices : ~lds[n].physicalDevices[k].isNone

\* C7 (as stated): for every valid Adaptec dump with n logical devices,
\* fromString returns a controller whose logicalDevices map and whose
\* logicalDevicesbyNameMap both have exactly n entries, and every logical
\* device has a non-empty physicalDevices of concrete objects.
C7_EntriesAsStated ==
    (vendor = "adaptec" /\ ValidAdaptecDump(logicalDevicesString, physicalDevicesString))
    => /\ scsiPc /= "raised"
       /\ scsiPc = "returned" =>
            /\ DOMAIN controllers = {0}
            /\ LET lds == controllers[0].logicalDevices
                   n == Cardinality(LdIndexes(logicalDevicesString))
               IN  /\ Cardinality(DOMAIN lds) = n
                   /\ Cardinality(DOMAIN LogicalDevicesbyNameMap(vendor, lds)) = n
                   /\ AllConcrete(lds)

\* C7 (amended): for every valid Adaptec dump with n logical devices,
\* fromString returns a controller whose logicalDevices map has exactly n
\* entries and whose logicalDevicesbyNameMap has one entry per distinct
\* logical device name of the dump (n when no two share a name), and every
\* logical device has a non-empty physicalDevices of concrete objects.
C7_Entries ==
    (vendor = "adaptec" /\ ValidAdaptecDump(logicalDevicesString, physicalDevicesString))
    => /\ scsiPc /= "raised"
       /\ scsiPc = "returned" =>
            /\ DOMAIN controllers = {0}
            /\ LET lds == controllers[0].logicalDevices
                   n == Cardinality(LdIndexes(logicalDevicesString))
                   names == DumpNames(logicalDevicesString)
                   byName == LogicalDevicesbyNameMap(vendor, lds)
               IN  /\ Cardinality(DOMAIN lds) = n
                   /\ DOMAIN byName = names
                   /\ Cardinality(names) = n => Cardinality(DOMAIN byName) = n
                   /\ AllConcrete(lds)

\* a valid dump of two logical devices with different names has been parsed
C7_Witness ==
    /\ vendor = "adaptec" /\ scsiPc = "returned"
    /\ ValidAdaptecDump(logicalDevicesString, physicalDevicesString)
    /\ Cardinality(LdIndexes(logicalDevicesString)) = 2
    /\ Cardinality(DumpNames(logicalDevicesString)) = 2
    /\ Cardinality(DOMAIN controllers[0].logicalDevices) = 2

\* C8: the value LogicalDeviceInfo.isSSD returns is true iff the logical
\* device has physical devices and all of them are SSD; with none it is false.
C8_IsSSDIffAll ==
    \A n \in DOMAIN isSSDResult :
        LET pds == controllers[0].logicalDevices[n].physicalDevices
        IN  isSSDResult[n] =
                PyBool(/\ DOMAIN pds /= {}
                       /\ \A k \in DOMAIN pds : PhysicalIsSSD(vendor, pds[k]))

\* the keys a reference can match: the serial numbers (adaptec) or the DIDs
\* (lsi) of the controller's physical devices
PhysicalKeys ==
    IF vendor = "adaptec" THEN DOMAIN physicalDevices
    ELSE {physicalDevices[sn].properties["DID"] : sn \in DOMAIN physicalDevices}

DanglingReference ==
    \E n \in DOMAIN logicalDevices :
        \E k \in DOMAIN logicalDevices[n].physicalDevices : k \notin PhysicalKeys

\* C9: in both parsers, when the resolution loop of fromString meets a
\* reference (serial number, DID) that matches none of the controller's
\* physical devices the call raises and returns no controller; so a call that
\* returned left no None in any logical device's physicalDevices.
C9_UnresolvedFails ==
    /\ [][(scsiPc = "resolve" /\ DanglingReference)
            => (scsiPc' = "raised" /\ scsiExc' = "KeyError" /\ controllers' = EmptyDict)]_vars
    /\ [](scsiPc = "returned" =>
            \A c \in DOMAIN controllers :
                \A n \in DOMAIN controllers[c].logicalDevices :
                    \A k \in DOMAIN controllers[c].logicalDevices[n].physicalDevices :
                        /\ ~controllers[c].logicalDevices[n].physicalDevices[k].isNone
                        /\ k \in PhysicalKeys)

\* fromString raised KeyError on a reference without a match
C9_Witness ==
    /\ scsiPc = "raised" /\ scsiExc = "KeyError"
    /\ logicalDevices /= EmptyDict
    /\ DanglingReference

\* ------------------------------------------------------------------------
\* controller reconciliation: specification and properties

InitReconcile == RcInit /\ GadIdle /\ DiskIdle /\ PdIdle /\ ScsiIdle /\ BdmIdle /\ RetryIdle /\ EwIdle /\ GavIdle /\ GdpIdle /\ TimerIdle

RcNext == addAdaptecControllerInformation \/ addLSIControllerInformation

SpecReconcile == InitReconcile /\ [][RcNext]_vars

\* C10: applying addAdaptecControllerInformation again, with the same disks
\* and the same controller information, leaves the type and the model of every
\* disk as the first application left them (and ends the same way).
C10_Idempotent ==
    [][rcCalls >= 1 =>
          /\ DOMAIN rcDisks' = DOMAIN rcDisks
          /\ \A name \in DOMAIN rcDisks :
                /\ rcDisks'[name].type = rcDisks[name].type
                /\ rcDisks'[name].model = rcDisks[name].model
          /\ rcExc' = rcExc]_vars

\* applied twice, and the first application turned sdx (an HDD whose model
\* names a logical device) into an SSD
C10_Witness ==
    /\ rcCalls = 2
    /\ rcExc = None
    /\ StartsWith(rcDisks[sdx].model, JBOD)
    /\ rcDisks[sdx].type = SSD

\* the type a verdict stands for
VerdictType(isSSD) == IF isSSD THEN SSD ELSE HDD

\* C11: after addAdaptecControllerInformation has returned, every disk whose
\* model starts with "JBOD" has the type of the verdict of the logical device
\* of that name: SSD if the logical device is SSD, HDD if it is not, whatever
\* the type was before.
C11_VerdictCopied ==
    (rcFunction = "adaptec" /\ rcCalls >= 1 /\ rcExc = None) =>
        \A name \in DOMAIN rcDisks :
            StartsWith(rcDisks[name].model, JBOD) =>
                rcDisks[name].type =
                    VerdictType(LogicalIsSSD("adaptec",
                        LogicalDevicesbyNameMap("adaptec",
                            devicesInfo.controllers[0].logicalDevices)[rcDisks[name].model]))

\* C12: when addLSIControllerInformation returns, every disk whose model
\* started with "MR" has as model the name of the logical device whose id is
\* the disk's target id in the mapping's by-name view, as type the type of
\* that logical device's verdict, and as location that target id.
C12_LsiReplaced ==
    [][(rcFunction = "lsi" /\ rcCalls' = rcCalls + 1 /\ rcExc' = None) =>
          \A name \in DOMAIN rcDisks :
              StartsWith(rcDisks[name].model, MR) =>
                  LET id == IDbyDeviceNameMap(blockDeviceMapping.devices)[name]
                      logicalDevice == devicesInfo.controllers[0].logicalDevices[id]
                  IN  /\ rcDisks'[name].model = Name("lsi", logicalDevice)
                      /\ rcDisks'[name].type = VerdictType(LogicalIsSSD("lsi", logicalDevice))
                      /\ rcDisks'[name].location = id]_vars

\* C13: a call with a devicesInfo of another class (either function) or with
\* a blockDeviceMapping that is no BlockDeviceMapping (the LSI function)
\* raises, and leaves every disk as it was.
C13_WrongTypeRejected ==
    [][(/\ rcCalls' = rcCalls + 1
        /\ \/ rcFunction = "adaptec" /\ devicesInfo.class /= "AdaptecDevicesInfo"
           \/ rcFunction = "lsi" /\ devicesInfo.class /= "LSIDevicesInfo"
           \/ rcFunction = "lsi" /\ blockDeviceMapping.class /= "BlockDeviceMapping")
       => (rcExc' = "ValueError" /\ rcDisks' = rcDisks)]_vars

\* the LSI function was handed LSI controller information and a dict as the
\* mapping, with a disk it would have changed, and raised
C13_Witness ==
    /\ rcFunction = "lsi" /\ rcCalls = 1 /\ rcExc = "ValueError"
    /\ devicesInfo.class = "LSIDevicesInfo"
    /\ blockDeviceMapping.class = "dict"
    /\ StartsWith(rcDisks[sdx].model, MR)

\* ------------------------------------------------------------------------
\* BlockDeviceMapping.fromString: specification and properties

InitMapping == BdmInit /\ GadIdle /\ DiskIdle /\ PdIdle /\ ScsiIdle /\ RcIdle /\ RetryIdle /\ EwIdle /\ GavIdle /\ GdpIdle /\ TimerIdle

BdmNext == fromString

SpecMapping == InitMapping /\ [][BdmNext]_vars

\* the listing is made of pairs and the first token of each pair is a bus
\* path with an H:B:T:L identifier (the second token is the name, whatever
\* it is)
PairsOfBusPathAndName(tokens) ==
    /\ Len(tokens) % 2 = 0
    /\ \A i \in 1..Len(tokens) : i % 2 = 1 => tokens[i].kind = "path"

C15_FailurePropagates ==
    /\ \A i \in 1..Len(commands) :
          ~commands[i].ok => (i = Len(commands) /\ pdPc = "raised")
    /\ pdPc = "raised" => (commands /= << >> /\ ~commands[Len(commands)].ok)

\* the second mkpart of a disk failed, after its label and its first
\* partition were written
C15_Witness ==
    /\ pdPc = "raised"
    /\ Len(commands) >= 3
    /\ LET last == commands[Len(commands)]
           before == commands[Len(commands) - 1]
       IN  /\ last.cmd = "mkpart" /\ ~last.ok
           /\ before.cmd = "mkpart" /\ before.ok
           /\ before.node = last.node /\ before.disk = last.disk

\* C16: a command failure halts the current disk only: when partitionDevices
\* is over, every disk of every node has had its commands issued.
C16_LaterDisksProcessed ==
    pdPc \in {"raised", "returned"} =>
        \A n \in DOMAIN devices : \A d \in DOMAIN devices[n] :
            \E i \in 1..Len(commands) : commands[i].node = n /\ commands[i].disk = d

\* ------------------------------------------------------------------------
\* getAvailableDisks: malformed rows

MalformedRow(line) ==
    LET diskInfo == ParseLine(line)
    IN  \/ ~({"NAME", "TYPE", "SIZE"} \subseteq DOMAIN diskInfo)
        \/ ~IsNumeral(diskInfo["SIZE"])

\* C17: a malformed row (a field missing or not a number) never makes
\* getAvailableDisks fail: it is skipped, the disks found so far stay as they
\* are, and the loop goes on with the next row.
C17_MalformedRowsSkipped ==
    [][(Len(lsblkOutput') = Len(lsblkOutput) + 1
        /\ MalformedRow(lsblkOutput'[Len(lsblkOutput')]))
       => (gadPc' = "loop" /\ disks' = disks /\ currentDevice' = currentDevice)]_vars

\* ------------------------------------------------------------------------
\* retry: specification and properties

InitRetry == RetryInit /\ GadIdle /\ DiskIdle /\ PdIdle /\ ScsiIdle /\ RcIdle /\ BdmIdle /\ EwIdle /\ GavIdle /\ GdpIdle /\ TimerIdle

RetryNext == CallMethod \/ RaiseLatestException

SpecRetry == InitRetry /\ [][RetryNext]_vars

EveryCallRetried ==
    \A i \in 1..Len(methodCalls) :
        methodCalls[i] /= "return" /\ Catches(exceptions, methodCalls[i])

\* C18: a method that raises a retried exception on every call has been called
\* exactly `attempts` times when the wrapper ends, and the wrapper ends raising
\* the exception of the last call (with attempts = 0 there is no call and no
\* exception of the method: `raise None`); a first call that raises an
\* exception which is not retried is the only call, and its exception leaves
\* the wrapper.
C18_RetryCounts ==
    /\ Len(methodCalls) <= attempts
    /\ (retryPc /= "loop" /\ EveryCallRetried) =>
          /\ Len(methodCalls) = attempts
          /\ retryPc = "raised"
          /\ retryExc = IF attempts = 0 THEN Exception("TypeError", 0)
                        ELSE Exception(methodCalls[attempts], attempts)
    /\ (methodCalls /= << >> /\ methodCalls[1] /= "return"
        /\ ~Catches(exceptions, methodCalls[1])) =>
          /\ Len(methodCalls) = 1
          /\ retryPc = "raised"
          /\ retryExc = Exception(methodCalls[1], 1)

\* test_method: three attempts, the method raised RuntimeError three times
C18_Witness ==
    /\ attempts = 3 /\ exceptions = {}
    /\ retryPc = "raised"
    /\ methodCalls = <<"RuntimeError", "RuntimeError", "RuntimeError">>
    /\ retryExc = Exception("RuntimeError", 3)

\* ------------------------------------------------------------------------
\* exclusiveWrite: specification and properties

InitWrite == EwInit /\ GadIdle /\ DiskIdle /\ PdIdle /\ ScsiIdle /\ RcIdle /\ BdmIdle /\ RetryIdle /\ GavIdle /\ GdpIdle /\ TimerIdle

EwNext == \E p \in Processes : Open(p) \/ Lockf(p) \/ WriteAndUnlock(p) \/ Close(p)

SpecWrite == InitWrite /\ [][EwNext]_vars

Finished(p) == ewPc[p] \in {"returned", "raised"}

\* the string of p stands in the file once, in one piece
WholeLine(p) ==
    /\ \E at \in 0..Len(file) :
          /\ at + Len(strings[p]) <= Len(file)
          /\ \A i \in 1..Len(strings[p]) : file[at + i] = strings[p][i]
    /\ Cardinality({i \in 1..Len(file) : file[i].process = p}) = Len(strings[p])

RECURSIVE SumOfLengths(_)
SumOfLengths(n) == IF n = 0 THEN 0 ELSE SumOfLengths(n - 1) + Len(strings[n])

\* C19: when all the processes that called exclusiveWrite in append mode with
\* the default tries have finished, the file holds one whole line of each of
\* them and nothing else.
C19_AllLinesWhole ==
    (append /\ ewTries = DefaultTries /\ \A p \in Processes : Finished(p)) =>
        /\ \A p \in Processes : WholeLine(p)
        /\ Len(file) = SumOfLengths(NumProcesses)

\* C20: a call ends raising exactly when every one of its `tries` attempts
\* found the lock taken (with tries = 0 there is no attempt), and then the
\* file holds nothing of its string; a call that got the lock returns, and
\* every piece of its string has been written once.
C20_RaisesOrWrites ==
    \A p \in Processes :
        /\ ewPc[p] = "raised" =>
              /\ tries[p] = 0
              /\ \A i \in 1..Len(written) : written[i].process /= p
              /\ \A i \in 1..Len(file) : file[i].process /= p
        /\ ewPc[p] = "returned" =>
              /\ tries[p] >= 1
              /\ \A part \in 1..Len(strings[p]) :
                    Cardinality({i \in 1..Len(written) : written[i] = Piece(p, part)}) = 1
        /\ (Finished(p) /\ tries[p] = 0) => ewPc[p] = "raised"

\* a call gave up after three attempts while the other call wrote its line
C20_Witness ==
    /\ ewTries = DefaultTries /\ append
    /\ \E p, q \in Processes :
          /\ ewPc[p] = "raised" /\ tries[p] = 0
          /\ ewPc[q] = "returned" /\ WholeLine(q)

\* ------------------------------------------------------------------------
\* partitionDevices: the order of a disk's commands

DiskCommands(node, disk) ==
    SelectSeq(commands, LAMBDA c : c.node = node /\ c.disk = disk)

\* what may come right after a command of a disk, for the same disk
Follows(c, next) ==
    CASE c.cmd = "lsblk" -> next.cmd \in {"umount", "mklabel"}
      [] c.cmd = "umount" -> next.cmd = "sed" /\ next.index = c.index
      [] c.cmd = "sed" -> next.cmd = "rmdir" /\ next.index = c.index
      [] c.cmd = "rmdir" -> next.cmd \in {"umount", "mklabel"}
      [] c.cmd = "mklabel" -> next.cmd = "mkpart"
      [] c.cmd = "mkpart" -> next.cmd = "mkpart" /\ next.index > c.index

\* C22: the commands of a disk come as lsblk, then umount, sed, rmdir for
\* each mountpoint, then one mklabel, then the mkparts in ascending index; a
\* command follows only a command that succeeded, so no mkpart comes before
\* the disk's mklabel has succeeded; a disk that was finished has one mkpart
\* for each planned partition.
C22_CommandOrder ==
    \A n \in DOMAIN devices : \A d \in DOMAIN devices[n] :
        LET cs == DiskCommands(n, d)
            labels == {i \in 1..Len(cs) : cs[i].cmd = "mklabel"}
            parts == {cs[i].index : i \in {j \in 1..Len(cs) : cs[j].cmd = "mkpart"}}
        IN  /\ cs /= << >> => cs[1].cmd = "lsblk"
            /\ \A i \in 1..(Len(cs) - 1) : cs[i].ok /\ Follows(cs[i], cs[i + 1])
            /\ Cardinality(labels) <= 1
            /\ \A i \in 1..Len(cs) :
                  cs[i].cmd = "mkpart" => \E j \in labels : j < i /\ cs[j].ok
            /\ (pdPc = "returned" \/ (cs /= << >> /\ <<n, d>> /= <<pdNodes[1], pdDisks[1]>>)) =>
                  /\ Cardinality(labels) = 1
                  /\ parts = DOMAIN devices[n][d]

\* a disk with a mountpoint and three planned partitions was carried out
C22_Witness ==
    /\ pdPc = "returned"
    /\ LET cs == DiskCommands(1, 1)
       IN  /\ Len(cs) = 8
           /\ [i \in 1..8 |-> cs[i].cmd]
                = <<"lsblk", "umount", "sed", "rmdir", "mklabel", "mkpart", "mkpart", "mkpart">>

\* ------------------------------------------------------------------------
\* getAvailableDisks: which disk a part row removes

\* C27: a row removes a disk from the result only if it is a part row with an
\* OS mountpoint and the disk is the one the partition belongs to, the nearest
\* disk row above it; when that disk is not in the result, nothing is removed.
C27_OnlyOwnerRemoved ==
    [][\A name \in DOMAIN disks \ DOMAIN disks' :
          LET n == Len(lsblkOutput')
          IN  /\ n = Len(lsblkOutput) + 1
              /\ n \in OSPartRowIndexes(lsblkOutput')
              /\ Owner(lsblkOutput', n) /= 0
              /\ name = RowName(lsblkOutput', Owner(lsblkOutput', n))]_vars

\* ------------------------------------------------------------------------
\* getAvailableDisks: the fields of a created Disk

\* C28: every disk of the result has the SIZE of its row in `size` and the
\* default 0 in `location`.
C28_SizeRecorded ==
    \A i \in DiskRowIndexes(lsblkOutput) :
        RowName(lsblkOutput, i) \in DOMAIN disks =>
            /\ disks[RowName(lsblkOutput, i)].size = RowSize(lsblkOutput, i)
            /\ disks[RowName(lsblkOutput, i)].location = <<"0">>

\* ------------------------------------------------------------------------
\* Disk: addPartition after setPartition

\* C29: a step of addPartition makes the partitions one more and leaves every
\* partition stored before under its index, as it was.
C29_AddPartitionAppends ==
    [][addPartition =>
          /\ Cardinality(DOMAIN partitions') = Cardinality(DOMAIN partitions) + 1
          /\ \A i \in DOMAIN partitions :
                i \in DOMAIN partitions' /\ partitions'[i] = partitions[i]]_vars

\* ------------------------------------------------------------------------
\* reconciliation: what a call leaves alone

RulePrefix == IF rcFunction = "adaptec" THEN JBOD ELSE MR

\* C30: a call of either rule keeps the keys of disks, leaves every disk whose
\* model does not start with the rule's prefix as it was, and keeps the name,
\* the size and the partitions of every disk.
C30_Frame ==
    [][/\ DOMAIN rcDisks' = DOMAIN rcDisks
       /\ \A name \in DOMAIN rcDisks :
             /\ ~StartsWith(rcDisks[name].model, RulePrefix) =>
                   rcDisks'[name] = rcDisks[name]
             /\ rcDisks'[name].name = rcDisks[name].name
             /\ rcDisks'[name].size = rcDisks[name].size
             /\ rcDisks'[name].partitions = rcDisks[name].partitions]_vars

\* a call retyped the JBOD disk sdx next to the disk sdy of another model
C30_Witness ==
    /\ rcFunction = "adaptec" /\ rcCalls >= 1 /\ rcExc = None
    /\ StartsWith(rcDisks[sdx].model, JBOD) /\ rcDisks[sdx].type = SSD
    /\ rcDisks[sdy].model = SEAGATE

\* ------------------------------------------------------------------------
\* LSI parser: controllers of the dump

SuccessControllers(json) == {i \in 1..Len(json) : json[i].status = "Success"}

\* the names of the virtual drives and the serial numbers of the drives that
\* one controller's "Response Data" describes
VdNamesOf(data) == {data[k][1]["Name"] : k \in {x \in DOMAIN data : x[1] = "/c/v"}}
SerialsOf(data) ==
    {data[k]["Device attributes"]["SN"] : k \in {x \in DOMAIN data : x[1] = "Drive Detailed"}}

\* C23: whatever the statuses of the controllers in the dumps, neither
\* parsePhysicalDevicesString nor parseLogicalDevicesString raises, and each
\* returns the devices of the controllers whose status is Success.
C23_NonSuccessSkipped ==
    [][/\ (vendor = "lsi" /\ scsiPc = "physical") =>
             /\ scsiPc' = "logical"
             /\ DOMAIN physicalDevices' =
                   UNION {SerialsOf(physicalDevicesString[i].data) :
                             i \in SuccessControllers(physicalDevicesString)}
       /\ (vendor = "lsi" /\ scsiPc = "logical") =>
             /\ scsiPc' = "resolve"
             /\ {Name("lsi", logicalDevices'[v]) : v \in DOMAIN logicalDevices'} =
                   UNION {VdNamesOf(logicalDevicesString[i].data) :
                             i \in SuccessControllers(logicalDevicesString)}]_vars

\* C24: when fromString returned for dumps whose first controller has status
\* Success, the ControllerInfo at index 0 holds the virtual drives and the
\* drives of the first controller of the dumps, and no others.
C24_OnlyFirstController ==
    (/\ vendor = "lsi" /\ scsiPc = "returned"
     /\ logicalDevicesString[1].status = "Success"
     /\ physicalDevicesString[1].status = "Success") =>
        LET info == controllers[0]
        IN  /\ DOMAIN controllers = {0}
            /\ {Name("lsi", info.logicalDevices[v]) : v \in DOMAIN info.logicalDevices}
                  = VdNamesOf(logicalDevicesString[1].data)
            /\ DOMAIN info.physicalDevices = SerialsOf(physicalDevicesString[1].data)

\* ------------------------------------------------------------------------
\* getAvailableDevices: specification and properties

GavNext == DiscoverNode \/ ReturnDevices

InitDevices == GavInit /\ GadIdle /\ DiskIdle /\ PdIdle /\ ScsiIdle /\ RcIdle /\ BdmIdle /\ RetryIdle /\ EwIdle /\ GdpIdle /\ TimerIdle

SpecDevices == InitDevices /\ [][GavNext]_vars

\* the disk rows of a node's dump that sit behind a controller
ControllerRowIndexes(lines) ==
    {i \in QualifyingDiskRowIndexes(lines) :
        \/ StartsWith(ParseLine(lines[i])["MODEL"], MR)
        \/ StartsWith(ParseLine(lines[i])["MODEL"], JBOD)}

\* the controller information of the node cannot be had: its disks sit behind
\* a controller, and the tools do not answer or name no usable controller
ControllerInformationFails(node) ==
    /\ lsblkOf[node].exc = None
    /\ ControllerRowIndexes(lsblkOf[node].out) /= {}
    /\ controllerOf[node] \in {"unreachable", "failing"}

\* C25: a node whose controller information cannot be fetched or parsed is
\* still part of the result: the call does not raise over it, the node is in
\* the DeviceMap, and each of its disks above the size threshold has the type
\* (by ROTA) and the model (MODEL) of its lsblk row.
C25_FallbackToOSClassification ==
    \A i \in 1..gavIndex :
        LET node == gavNodes[i]
            lines == lsblkOf[node].out
        IN  ControllerInformationFails(node) =>
                /\ ~(gavPc = "raised" /\ i = gavIndex)
                /\ node \in DOMAIN deviceMap
                /\ \A r \in QualifyingDiskRowIndexes(lines) :
                      LET diskInfo == ParseLine(lines[r])
                          name == diskInfo["NAME"]
                      IN  /\ name \in DOMAIN deviceMap[node]
                          /\ deviceMap[node][name].type =
                                IF diskInfo["ROTA"] = "0" THEN SSD ELSE HDD
                          /\ deviceMap[node][name].model = diskInfo["MODEL"]

\* ------------------------------------------------------------------------
\* getDiskPartitions: specification and properties

GdpNext == getDiskPartitions

InitPartitions == GdpInit /\ GadIdle /\ DiskIdle /\ PdIdle /\ ScsiIdle /\ RcIdle /\ BdmIdle /\ RetryIdle /\ EwIdle /\ GavIdle /\ TimerIdle

SpecPartitions == InitPartitions /\ [][GdpNext]_vars

TimerNext == SleepInitial \/ CallFunction \/ SleepInterval \/ TimerExit

InitTimer == TimerInit /\ GadIdle /\ DiskIdle /\ PdIdle /\ ScsiIdle /\ RcIdle /\ BdmIdle /\ RetryIdle /\ EwIdle /\ GavIdle /\ GdpIdle

SpecTimer == InitTimer /\ [][TimerNext]_vars

\* the calls of a timer that ran as documented for repeat=3: the initial
\* wait, then three calls with the interval between them
ThreeCalls ==
    <<Sleep(initial), Call, Sleep(interval), Call, Sleep(interval), Call>>

\* C21: a Timer created with repeat=3 calls its function three times, the
\* first after the initial wait and the others an interval apart, and never a
\* fourth time; when it ends without an exception it has made the three calls.
\* A Timer created with repeat=-1 does not end by itself.
C21_ThreeCalls ==
    /\ repeatGiven = 3 =>
          /\ Calls(timerEvents) <= 3
          /\ (timerPc = "exited" /\ timerLog = None) =>
                /\ Calls(timerEvents) = 3
                /\ SubSeq(timerEvents, 1, 6) = ThreeCalls
    /\ repeatGiven = -1 => (timerPc = "exited" => timerLog /= None)

====
